---- MODULE Spec2Model ----
(***************************************************************************)
(* Stage-completion scoring and stage-transition engine of the HR          *)
(* interview assistant (src/utils.py), and the LangGraph workflow          *)
(* agent -> tools -> update_stage -> agent that drives it                  *)
(* (src/rh_interviewer/services/hr_assistant_service.py).                  *)
(*                                                                         *)
(* Scores are exact rationals held as integers: 1.0 is ScoreUnit.  For the *)
(* default configuration the float comparisons of the source agree with    *)
(* the exact ones on every reachable score (checked by enumeration).       *)
(*                                                                         *)
(* A user message is modelled by the features the code reads from it: its  *)
(* number of whitespace-separated words, the configured keywords it        *)
(* contains as substrings, whether it contains a continuation phrase, a    *)
(* number, or an example-introducing phrase.                               *)
(***************************************************************************)
EXTENDS Integers, Sequences, FiniteSets, TLC

\* ------------------------------------------------------------------ bounds
MaxTurns == 2
MaxSteps == 27
MaxIC == 9
MaxResponses == 2

\* 1.0 in score units; 168 = lcm of the keyword-list lengths 6, 7, 8
ScoreUnit == 1000 * 168
PerMille(p) == p * 168

\* ------------------------------------------------- configuration (utils.py)
NoStage == "none"
UnknownStage == "unknown_stage"

stage_order ==
  <<"advancements", "challenges", "achievements", "training_needs",
    "action_plan", "summary">>

Stages == {stage_order[i] : i \in 1..Len(stage_order)}
StageIds == Stages \cup {UnknownStage}

initial_stage == "advancements"

emergency_completeness_score == PerMille(500)
min_interactions_for_emergency == 3
ExtendedScore == PerMille(600)
IntentScore == PerMille(500)

\* CompletionWeights, in per-mille of the score
w_keyword_coverage == 250
w_depth_score == 250
w_interactions == 200
w_words == 150
w_examples == 150

\* StageConfig(pretty_name, context_text) with the dataclass defaults
DefaultStageConfig ==
  [min_interactions |-> 1, min_word_count |-> 50,
   required_keywords |-> <<>>, depth_indicators |-> <<>>,
   completion_threshold |-> PerMille(700),
   force_transition_interactions |-> 6]

stages ==
  [s \in Stages |->
    CASE s = "advancements" ->
      [min_interactions |-> 2, min_word_count |-> 100,
       required_keywords |-> <<"skill", "project", "responsibility",
          "improvement", "achievement", "learn", "develop", "growth">>,
       depth_indicators |-> <<"specific", "example", "result", "impact",
          "implemented", "created", "led", "managed">>,
       completion_threshold |-> PerMille(700),
       force_transition_interactions |-> 5]
    [] s = "challenges" ->
      [min_interactions |-> 2, min_word_count |-> 80,
       required_keywords |-> <<"challenge", "difficult", "obstacle",
          "problem", "barrier", "issue", "struggle">>,
       depth_indicators |-> <<"approach", "solution", "overcome", "learned",
          "adapted", "resolved", "handled">>,
       completion_threshold |-> PerMille(600),
       force_transition_interactions |-> 4]
    [] s = "achievements" ->
      [min_interactions |-> 2, min_word_count |-> 120,
       required_keywords |-> <<"accomplished", "delivered", "exceeded",
          "successful", "completed", "achieved", "won">>,
       depth_indicators |-> <<"metric", "percentage", "number", "result",
          "impact", "recognition", "outcome", "improved">>,
       completion_threshold |-> PerMille(750),
       force_transition_interactions |-> 6]
    [] s = "training_needs" ->
      [min_interactions |-> 1, min_word_count |-> 60,
       required_keywords |-> <<"skill", "training", "development", "learn",
          "improve", "certification", "course">>,
       depth_indicators |-> <<"specific", "goal", "timeline", "program",
          "mentor", "practice">>,
       completion_threshold |-> PerMille(600),
       force_transition_interactions |-> 4]
    [] s = "action_plan" ->
      [min_interactions |-> 2, min_word_count |-> 100,
       required_keywords |-> <<"goal", "plan", "objective", "timeline",
          "action", "target", "milestone">>,
       depth_indicators |-> <<"specific", "measurable", "deadline",
          "resource", "steps", "review">>,
       completion_threshold |-> PerMille(750),
       force_transition_interactions |-> 5]
    [] OTHER ->
      [min_interactions |-> 0, min_word_count |-> 0,
       required_keywords |-> <<>>, depth_indicators |-> <<>>,
       completion_threshold |-> PerMille(0),
       force_transition_interactions |-> 1]]

\* cfg.stages.get(stage, StageConfig(pretty_name=stage, context_text=""))
StageCfg(s) == IF s \in Stages THEN stages[s] ELSE DefaultStageConfig

tool_stage_map ==
  [t \in {"document_advancement", "document_challenge",
          "document_achievement", "document_training_need",
          "document_action_plan"} |->
    CASE t = "document_advancement" -> "challenges"
      [] t = "document_challenge" -> "achievements"
      [] t = "document_achievement" -> "training_needs"
      [] t = "document_training_need" -> "action_plan"
      [] OTHER -> "summary"]

\* ------------------------------------------------------------ user messages
\* m_move  "ok, let's move on"
\* m_led   "I led a project that improved conversion by 15%, mentoring two
\*          juniors."
\* m_chal  "The main challenge was a difficult problem, a real obstacle and
\*          barrier"
\* m_rich  every configured keyword once, then 70 filler words (133 words)
\* m_w100  every configured keyword once, then 37 filler words (100 words)
\* m_w99   every configured keyword once, then 36 filler words (99 words)
\* m_chal3 "The main challenge was a difficult problem"
\* m_chal_move "The main challenge was a difficult problem, a real obstacle
\*          and barrier, let's move on"
NoMessage == "no_message"

\* wc: words; has: the configured keywords the text contains (every: all of
\* them); cont, num, exw: it contains a continuation phrase, a number, an
\* example-introducing phrase
Msg ==
  [m \in {"m_move", "m_led", "m_chal", "m_rich", "m_w100", "m_w99",
           "m_chal3", "m_chal_move"} |->
    CASE m = "m_move" ->
      [wc |-> 4, has |-> {}, every |-> FALSE,
       cont |-> TRUE, num |-> FALSE, exw |-> FALSE]
    [] m = "m_led" ->
      [wc |-> 12, has |-> {"improve", "improved", "led", "mentor", "project"},
       every |-> FALSE, cont |-> FALSE, num |-> TRUE, exw |-> TRUE]
    [] m = "m_chal" ->
      [wc |-> 12,
       has |-> {"barrier", "challenge", "difficult", "obstacle", "problem"},
       every |-> FALSE, cont |-> FALSE, num |-> FALSE, exw |-> FALSE]
    [] m = "m_chal3" ->
      [wc |-> 7, has |-> {"challenge", "difficult", "problem"},
       every |-> FALSE, cont |-> FALSE, num |-> FALSE, exw |-> FALSE]
    [] m = "m_chal_move" ->
      [wc |-> 15,
       has |-> {"barrier", "challenge", "difficult", "obstacle", "problem"},
       every |-> FALSE, cont |-> TRUE, num |-> FALSE, exw |-> FALSE]
    [] m = "m_w100" ->
      [wc |-> 100, has |-> {}, every |-> TRUE,
       cont |-> FALSE, num |-> FALSE, exw |-> TRUE]
    [] m = "m_w99" ->
      [wc |-> 99, has |-> {}, every |-> TRUE,
       cont |-> FALSE, num |-> FALSE, exw |-> TRUE]
    [] OTHER ->
      [wc |-> 133, has |-> {}, every |-> TRUE,
       cont |-> FALSE, num |-> FALSE, exw |-> TRUE]]

Messages == DOMAIN Msg

\* the messages a user sends in the workflow specification
TurnMessages == {"m_move", "m_led", "m_rich"}

\* In the operators below cs, sm and ic are the current_stage,
\* stage_messages and interaction_count the function is given.

\* --------------------------------------------------- text of a stage
\* Variant: only the latest utterance of the stage is returned.
get_stage_responses_latest(sm, stage) ==
  IF sm[stage] = <<>> THEN <<>> ELSE <<sm[stage][Len(sm[stage])]>>

\* get_stage_responses: the list stored for the stage ([] when absent)
get_stage_responses(sm, stage) == sm[stage]

\* words of the first n responses
SumWords(responses) ==
  LET sum[n \in 0..Len(responses)] ==
        IF n = 0 THEN 0 ELSE sum[n - 1] + Msg[responses[n]].wc
  IN sum[Len(responses)]

\* len(" ".join(responses).split())
WordCount(responses) == SumWords(responses)

\* k.lower() in " ".join(responses).lower(), for a keyword without a space
InText(responses, k) ==
  \E i \in 1..Len(responses) :
    Msg[responses[i]].every \/ k \in Msg[responses[i]].has

\* sum(1 for k in keywords if k.lower() in lowered)
CountFound(responses, keywords) ==
  Cardinality({i \in 1..Len(keywords) : InText(responses, keywords[i])})

\* A fraction found/total of the score unit; total divides 168.
Fraction(found, total) == (found * ScoreUnit) \div total

Min(a, b) == IF a <= b THEN a ELSE b

\* Variant: no guard for an empty keyword list (found / max(len, 1)).
calculate_keyword_coverage_unguarded(responses, keywords) ==
  IF keywords = <<>> THEN 0
  ELSE Fraction(CountFound(responses, keywords), Len(keywords))

calculate_keyword_coverage(responses, keywords) ==
  IF keywords = <<>> THEN ScoreUnit
  ELSE Fraction(CountFound(responses, keywords), Len(keywords))

calculate_depth_score(responses, depth_indicators) ==
  IF depth_indicators = <<>> THEN ScoreUnit
  ELSE Min(Fraction(CountFound(responses, depth_indicators),
                    Len(depth_indicators)), ScoreUnit)

has_specific_examples(responses) ==
  IF responses = <<>> THEN FALSE
  ELSE \/ \E i \in 1..Len(responses) : Msg[responses[i]].num
       \/ \E i \in 1..Len(responses) : Msg[responses[i]].exw
       \/ WordCount(responses) > 80

\* ------------------------------------------------------------ readiness
\* Variant: the extended tier is tested before the forced tier.
_determine_readiness_extended_first(completeness_score, ic, stage_config) ==
  IF /\ completeness_score >= stage_config.completion_threshold
     /\ ic >= stage_config.min_interactions
  THEN TRUE
  ELSE IF ic >= min_interactions_for_emergency * 2
  THEN completeness_score >= ExtendedScore
  ELSE IF ic >= stage_config.force_transition_interactions
  THEN completeness_score >= emergency_completeness_score
  ELSE FALSE

\* Variant: the forced tier compares with the stage's completion threshold.
_determine_readiness_forced_threshold(completeness_score, ic, stage_config) ==
  IF /\ completeness_score >= stage_config.completion_threshold
     /\ ic >= stage_config.min_interactions
  THEN TRUE
  ELSE IF ic >= stage_config.force_transition_interactions
  THEN completeness_score >= stage_config.completion_threshold
  ELSE IF ic >= min_interactions_for_emergency * 2
  THEN completeness_score >= ExtendedScore
  ELSE FALSE

\* Variant: the forced tier's bound is exclusive.
_determine_readiness_exclusive(completeness_score, ic, stage_config) ==
  IF /\ completeness_score >= stage_config.completion_threshold
     /\ ic >= stage_config.min_interactions
  THEN TRUE
  ELSE IF ic >= stage_config.force_transition_interactions
  THEN completeness_score > emergency_completeness_score
  ELSE IF ic >= min_interactions_for_emergency * 2
  THEN completeness_score >= ExtendedScore
  ELSE FALSE

\* Variant: there is no forced tier.
_determine_readiness_no_forced(completeness_score, ic, stage_config) ==
  IF /\ completeness_score >= stage_config.completion_threshold
     /\ ic >= stage_config.min_interactions
  THEN TRUE
  ELSE IF ic >= min_interactions_for_emergency * 2
  THEN completeness_score >= ExtendedScore
  ELSE FALSE

\* Variant: the extended tier starts at min_interactions_for_emergency.
_determine_readiness_early_extended(completeness_score, ic, stage_config) ==
  IF /\ completeness_score >= stage_config.completion_threshold
     /\ ic >= stage_config.min_interactions
  THEN TRUE
  ELSE IF ic >= stage_config.force_transition_interactions
  THEN completeness_score >= emergency_completeness_score
  ELSE IF ic >= min_interactions_for_emergency
  THEN completeness_score >= ExtendedScore
  ELSE FALSE

_determine_readiness(completeness_score, ic, stage_config) ==
  IF /\ completeness_score >= stage_config.completion_threshold
     /\ ic >= stage_config.min_interactions
  THEN TRUE
  ELSE IF ic >= stage_config.force_transition_interactions
  THEN completeness_score >= emergency_completeness_score
  ELSE IF ic >= min_interactions_for_emergency * 2
  THEN completeness_score >= ExtendedScore
  ELSE FALSE

\* Variant: a minimum that is not met and a missing example count nothing.
CompositeScore_no_partial(coverage, depth, interactions_met, words_met, examples) ==
  ( coverage * w_keyword_coverage
  + depth * w_depth_score
  + (IF interactions_met THEN ScoreUnit ELSE 0) * w_interactions
  + (IF words_met THEN ScoreUnit ELSE 0) * w_words
  + (IF examples THEN ScoreUnit ELSE 0) * w_examples ) \div 1000

\* sum(components): weights are per-mille, component values are score units
CompositeScore(coverage, depth, interactions_met, words_met, examples) ==
  ( coverage * w_keyword_coverage
  + depth * w_depth_score
  + (IF interactions_met THEN ScoreUnit ELSE ScoreUnit \div 2)
      * w_interactions
  + (IF words_met THEN ScoreUnit ELSE (3 * ScoreUnit) \div 10) * w_words
  + (IF examples THEN ScoreUnit ELSE (4 * ScoreUnit) \div 10)
      * w_examples ) \div 1000

\* Variant: the word bound is exclusive.
evaluate_stage_completion_exclusive(cs, sm, ic) ==
  LET sc == StageCfg(cs)
      stage_responses == get_stage_responses(sm, cs)
      word_count == WordCount(stage_responses)
      keyword_coverage ==
        calculate_keyword_coverage(stage_responses, sc.required_keywords)
      depth_score ==
        calculate_depth_score(stage_responses, sc.depth_indicators)
      specific_examples == has_specific_examples(stage_responses)
      min_interactions_met == ic >= sc.min_interactions
      min_words_met == word_count > sc.min_word_count
      completeness_score ==
        CompositeScore(keyword_coverage, depth_score, min_interactions_met,
                       min_words_met, specific_examples)
  IN [interaction_count |-> ic,
      word_count |-> word_count,
      keyword_coverage |-> keyword_coverage,
      depth_score |-> depth_score,
      min_interactions_met |-> min_interactions_met,
      min_words_met |-> min_words_met,
      has_specific_examples |-> specific_examples,
      completeness_score |-> completeness_score,
      ready_for_next |->
        _determine_readiness(completeness_score, ic, sc)]

evaluate_stage_completion(cs, sm, ic) ==
  LET sc == StageCfg(cs)
      stage_responses == get_stage_responses(sm, cs)
      word_count == WordCount(stage_responses)
      keyword_coverage ==
        calculate_keyword_coverage(stage_responses, sc.required_keywords)
      depth_score ==
        calculate_depth_score(stage_responses, sc.depth_indicators)
      specific_examples == has_specific_examples(stage_responses)
      min_interactions_met == ic >= sc.min_interactions
      min_words_met == word_count >= sc.min_word_count
      completeness_score ==
        CompositeScore(keyword_coverage, depth_score, min_interactions_met,
                       min_words_met, specific_examples)
  IN [interaction_count |-> ic,
      word_count |-> word_count,
      keyword_coverage |-> keyword_coverage,
      depth_score |-> depth_score,
      min_interactions_met |-> min_interactions_met,
      min_words_met |-> min_words_met,
      has_specific_examples |-> specific_examples,
      completeness_score |-> completeness_score,
      ready_for_next |->
        _determine_readiness(completeness_score, ic, sc)]

\* ------------------------------------------------------ intent detection
continue_intent == "continue"

\* matches and number of keywords of a stage for a message
IntentMatches(user_message, stage_name) ==
  LET all_keywords == stages[stage_name].required_keywords
                      \o stages[stage_name].depth_indicators
  IN CountFound(<<user_message>>, all_keywords)

IntentTotal(stage_name) ==
  Len(stages[stage_name].required_keywords)
  + Len(stages[stage_name].depth_indicators)

\* stage_scores: the other stages that configure at least one keyword
ScoredStages(cs) ==
  {i \in 1..Len(stage_order) :
     /\ stage_order[i] # cs
     /\ IntentTotal(stage_order[i]) > 0}

\* Variant: the last maximum in dict order.
BestStage_last(user_message, cs) ==
  LET S == ScoredStages(cs)
      Better(i, j) ==
        IntentMatches(user_message, stage_order[i]) * IntentTotal(stage_order[j])
        > IntentMatches(user_message, stage_order[j]) * IntentTotal(stage_order[i])
  IN CHOOSE i \in S :
       /\ \A j \in S : ~Better(j, i)
       /\ \A j \in S : j > i => Better(i, j)

\* max(stage_scores.items(), key=score): the first maximum in dict order
BestStage(user_message, cs) ==
  LET S == ScoredStages(cs)
      Better(i, j) ==
        IntentMatches(user_message, stage_order[i]) * IntentTotal(stage_order[j])
        > IntentMatches(user_message, stage_order[j]) * IntentTotal(stage_order[i])
  IN CHOOSE i \in S :
       /\ \A j \in S : ~Better(j, i)
       /\ \A j \in S : j < i => Better(i, j)

\* Variant: the stage keywords are examined before the continuation
\* phrases.
DetectIntent_keywords_first(user_message, cs) ==
  IF user_message = NoMessage THEN cs
  ELSE IF ScoredStages(cs) = {} THEN
    IF Msg[user_message].cont THEN continue_intent ELSE cs
  ELSE LET b == BestStage(user_message, cs)
       IN IF IntentMatches(user_message, stage_order[b]) * 10
               >= 3 * IntentTotal(stage_order[b])
          THEN stage_order[b]
          ELSE IF Msg[user_message].cont THEN continue_intent ELSE cs

\* Variant: a stage is returned only from a matched fraction of 0.5.
DetectIntent_half(user_message, cs) ==
  IF user_message # NoMessage /\ Msg[user_message].cont
  THEN continue_intent
  ELSE IF user_message = NoMessage \/ ScoredStages(cs) = {}
  THEN cs
  ELSE LET b == BestStage(user_message, cs)
       IN IF IntentMatches(user_message, stage_order[b]) * 10
               >= 5 * IntentTotal(stage_order[b])
          THEN stage_order[b]
          ELSE cs

DetectIntent(user_message, cs) ==
  IF user_message # NoMessage /\ Msg[user_message].cont
  THEN continue_intent
  ELSE IF user_message = NoMessage \/ ScoredStages(cs) = {}
  THEN cs
  ELSE LET b == BestStage(user_message, cs)
       IN IF IntentMatches(user_message, stage_order[b]) * 10
               >= 3 * IntentTotal(stage_order[b])
          THEN stage_order[b]
          ELSE cs

\* The detector is a function of (message, stage); it is tabulated once.
IntentTable ==
  [m \in Messages \cup {NoMessage}, s \in StageIds |-> DetectIntent(m, s)]

detect_conversation_intent(user_message, cs) ==
  IntentTable[user_message, cs]

\* ---------------------------------------------------- transition deciders
IndexOf(stage) == CHOOSE i \in 1..Len(stage_order) : stage_order[i] = stage

\* Variant: the index after the last stage wraps around to the first.
NextInOrder_wrap(cs) ==
  IF cs \notin Stages THEN NoStage
  ELSE stage_order[(IndexOf(cs) % Len(stage_order)) + 1]

\* cfg.stage_order[idx + 1] if idx + 1 < len(cfg.stage_order) else None
NextInOrder(cs) ==
  IF cs \notin Stages THEN NoStage
  ELSE IF IndexOf(cs) < Len(stage_order)
  THEN stage_order[IndexOf(cs) + 1]
  ELSE NoStage

\* Variant: the intent rule targets whatever stage the detector names.
should_transition_stage_detected(cs, sm, ic, user_message) ==
  LET completion_metrics == evaluate_stage_completion(cs, sm, ic)
      nxt == NextInOrder(cs)
      detected == detect_conversation_intent(user_message, cs)
  IN IF nxt = NoStage THEN <<FALSE, cs>>
     ELSE IF /\ user_message # NoMessage
             /\ detected = continue_intent
             /\ completion_metrics.ready_for_next
     THEN <<TRUE, nxt>>
     ELSE IF /\ user_message # NoMessage
             /\ detected # continue_intent
             /\ detected # cs
             /\ completion_metrics.completeness_score >= IntentScore
             /\ completion_metrics.interaction_count >= 1
     THEN <<TRUE, detected>>
     ELSE IF completion_metrics.ready_for_next
     THEN <<TRUE, nxt>>
     ELSE <<FALSE, cs>>

\* Variant: a continuation phrase advances without the readiness test.
should_transition_stage_continue(cs, sm, ic, user_message) ==
  LET completion_metrics == evaluate_stage_completion(cs, sm, ic)
      nxt == NextInOrder(cs)
      detected == detect_conversation_intent(user_message, cs)
  IN IF nxt = NoStage THEN <<FALSE, cs>>
     ELSE IF /\ user_message # NoMessage
             /\ detected = continue_intent
     THEN <<TRUE, nxt>>
     ELSE IF /\ user_message # NoMessage
             /\ detected = nxt
             /\ completion_metrics.completeness_score >= IntentScore
             /\ completion_metrics.interaction_count >= 1
     THEN <<TRUE, nxt>>
     ELSE IF completion_metrics.ready_for_next
     THEN <<TRUE, nxt>>
     ELSE <<FALSE, cs>>

\* returns <<should_transition, target_stage>>
should_transition_stage(cs, sm, ic, user_message) ==
  LET completion_metrics == evaluate_stage_completion(cs, sm, ic)
      nxt == NextInOrder(cs)
      detected == detect_conversation_intent(user_message, cs)
  IN IF nxt = NoStage THEN <<FALSE, cs>>
     ELSE IF /\ user_message # NoMessage
             /\ detected = continue_intent
             /\ completion_metrics.ready_for_next
     THEN <<TRUE, nxt>>
     ELSE IF /\ user_message # NoMessage
             /\ detected # continue_intent
             /\ detected = nxt
             /\ completion_metrics.completeness_score >= IntentScore
             /\ completion_metrics.interaction_count >= 1
     THEN <<TRUE, nxt>>
     ELSE IF completion_metrics.ready_for_next
     THEN <<TRUE, nxt>>
     ELSE <<FALSE, cs>>

\* response.tool_calls: absent or empty, an entry without a name, or a name
NoToolCall == "no_tool_call"
NamelessToolCall == "nameless_tool_call"
ToolNames == DOMAIN tool_stage_map \cup {"unknown_tool"}
ToolCalls == {NoToolCall, NamelessToolCall} \cup ToolNames

\* None when the first entry carries no name
_extract_tool_name(tool_calls) ==
  IF tool_calls = NamelessToolCall THEN NoToolCall ELSE tool_calls

\* Variant: the tool's mapped stage is returned without comparing it with
\* the next stage in order.
determine_next_stage_mapped(tool_calls, cs, completion_metrics, user_message) ==
  LET nxt ==
        IF NextInOrder(cs) = NoStage THEN cs
        ELSE NextInOrder(cs)
      tool_name == _extract_tool_name(tool_calls)
      sc == StageCfg(cs)
  IN IF cs \notin Stages THEN cs
     ELSE IF /\ tool_calls # NoToolCall
             /\ completion_metrics.ready_for_next
             /\ tool_name # NoToolCall
             /\ tool_name \in DOMAIN tool_stage_map
     THEN tool_stage_map[tool_name]
     ELSE IF /\ user_message # NoMessage
             /\ detect_conversation_intent(user_message, cs)
                  = nxt
             /\ completion_metrics.completeness_score >= IntentScore
     THEN nxt
     ELSE IF /\ completion_metrics.interaction_count
                  >= sc.force_transition_interactions
             /\ completion_metrics.completeness_score
                  >= emergency_completeness_score
     THEN nxt
     ELSE cs

\* Variant: any tool call entry advances a ready stage, named or not.
determine_next_stage_any_tool(tool_calls, cs, completion_metrics, user_message) ==
  LET nxt ==
        IF NextInOrder(cs) = NoStage THEN cs
        ELSE NextInOrder(cs)
      tool_name == _extract_tool_name(tool_calls)
      sc == StageCfg(cs)
  IN IF cs \notin Stages THEN cs
     ELSE IF /\ tool_calls # NoToolCall
             /\ completion_metrics.ready_for_next
     THEN nxt
     ELSE IF /\ user_message # NoMessage
             /\ detect_conversation_intent(user_message, cs)
                  = nxt
             /\ completion_metrics.completeness_score >= IntentScore
     THEN nxt
     ELSE IF /\ completion_metrics.interaction_count
                  >= sc.force_transition_interactions
             /\ completion_metrics.completeness_score
                  >= emergency_completeness_score
     THEN nxt
     ELSE cs

\* Variant: the forced rule advances whatever the score is.
determine_next_stage_forced_any(tool_calls, cs, completion_metrics, user_message) ==
  LET nxt ==
        IF NextInOrder(cs) = NoStage THEN cs
        ELSE NextInOrder(cs)
      tool_name == _extract_tool_name(tool_calls)
      sc == StageCfg(cs)
  IN IF cs \notin Stages THEN cs
     ELSE IF /\ tool_calls # NoToolCall
             /\ completion_metrics.ready_for_next
             /\ tool_name # NoToolCall
             /\ tool_name \in DOMAIN tool_stage_map
             /\ tool_stage_map[tool_name] = nxt
     THEN tool_stage_map[tool_name]
     ELSE IF /\ user_message # NoMessage
             /\ detect_conversation_intent(user_message, cs)
                  = nxt
             /\ completion_metrics.completeness_score >= IntentScore
     THEN nxt
     ELSE IF completion_metrics.interaction_count
               >= sc.force_transition_interactions
     THEN nxt
     ELSE cs

determine_next_stage(tool_calls, cs, completion_metrics, user_message) ==
  LET nxt ==
        IF NextInOrder(cs) = NoStage THEN cs
        ELSE NextInOrder(cs)
      tool_name == _extract_tool_name(tool_calls)
      sc == StageCfg(cs)
  IN IF cs \notin Stages THEN cs
     ELSE IF /\ tool_calls # NoToolCall
             /\ completion_metrics.ready_for_next
             /\ tool_name # NoToolCall
             /\ tool_name \in DOMAIN tool_stage_map
             /\ tool_stage_map[tool_name] = nxt
     THEN tool_stage_map[tool_name]
     ELSE IF /\ user_message # NoMessage
             /\ detect_conversation_intent(user_message, cs)
                  = nxt
             /\ completion_metrics.completeness_score >= IntentScore
     THEN nxt
     ELSE IF /\ completion_metrics.interaction_count
                  >= sc.force_transition_interactions
             /\ completion_metrics.completeness_score
                  >= emergency_completeness_score
     THEN nxt
     ELSE cs

\* ------------------------------------------------ state transition applier
\* the state after merging the returned update
\* Variant: the counter is reset whether or not the stage changes.
update_stage_after_tool_always(st) ==
  [current_stage |-> st.next_stage,
   next_stage |-> st.next_stage,
   interaction_count |-> 0]

\* Variant: the pending stage is not written to current_stage.
update_stage_after_tool_pending(st) ==
  [current_stage |-> st.current_stage,
   next_stage |-> st.next_stage,
   interaction_count |-> IF st.next_stage # st.current_stage THEN 0
                         ELSE st.interaction_count]

update_stage_after_tool(st) ==
  IF st.next_stage # st.current_stage
  THEN [current_stage |-> st.next_stage,
        next_stage |-> st.next_stage,
        interaction_count |-> 0]
  ELSE [current_stage |-> st.current_stage,
        next_stage |-> st.next_stage,
        interaction_count |-> st.interaction_count]

\* ------------------------------------------------------------------ state
\* current_stage .. stage_messages: the AgentState the graph is running on
\* last_user_message, last_kind: what the code reads from state["messages"]
\*   (the last human message, and the kind of the last message)
\* pc: the node the graph runs next, "idle" between invocations
\* steps: nodes run in this invocation; turns: invocations started
\* session: the state kept by SessionsService for the session
\* outcome: the pair (result, error) safe_invoke_graph returned for the last
\*   invocation, NoOutcome while none has returned
\* call: the last application of a pure function (specification SpecFn)
\* interviews, stage_summaries, session_employee, response: the HTTP
\*   routes over the interview database (specification SpecInterview):
\*   interviews: the rows of table interviews, in order of their ids
\*   stage_summaries: the rows of table stage_summaries, in order of ids
\*   session_employee: per session id, the employee_id key the routes put
\*     on the session record
\*   response: the route that served the last request and its status code
\* sessions, runs, alone, session_turns: several sessions served by one
\*   SessionsService (specification SpecSessions):
\*   sessions: the dictionary SessionsService.sessions, session id to state
\*   runs: per session id, the graph invocation of the request in flight
\*   alone: per session id, the stored state and the invocation the
\*     session would have if it were the only one served
\*   session_turns: per session id, the messages sent so far
VARIABLES current_stage, next_stage, interaction_count, stage_messages,
          last_user_message, last_kind, pc, steps, turns, session, outcome,
          call, sessions, runs, alone, session_turns,
          interviews, stage_summaries, session_employee, response

vars == <<current_stage, next_stage, interaction_count, stage_messages,
          last_user_message, last_kind, pc, steps, turns, session, outcome,
          call, sessions, runs, alone, session_turns,
          interviews, stage_summaries, session_employee, response>>

pool_vars == <<sessions, runs, alone, session_turns>>

db_vars == <<interviews, stage_summaries, session_employee, response>>

graph_vars == <<current_stage, next_stage, interaction_count, stage_messages,
                last_user_message, last_kind, pc, steps, turns, session,
                outcome, pool_vars, db_vars>>

\* the session ids create_session hands out
SessionIds == {"s1", "s2"}

\* a graph invocation: the AgentState it runs on, the node it runs next
\* ("idle" when none is in flight) and whether it ended with an error
IdleRun ==
  [current_stage |-> initial_stage, next_stage |-> initial_stage,
   interaction_count |-> 0, stage_messages |-> [s \in StageIds |-> <<>>],
   last_user_message |-> NoMessage, last_kind |-> "none", pc |-> "idle",
   steps |-> 0, error |-> FALSE]

\* None in the place of a result, and in the place of an error message
NoResult == [result |-> "none"]
NoError == "none"
ErrorText == "error"
NoOutcome == <<NoResult, NoError>>

\* Variant: an error message is returned together with the result.
safe_invoke_graph_both(raised, result) ==
  IF raised THEN <<NoResult, ErrorText>> ELSE <<result, ErrorText>>

\* safe_invoke_graph: (result, None), or (None, str(e)) when app.invoke
\* raises
safe_invoke_graph(raised, result) ==
  IF raised THEN <<NoResult, ErrorText>> ELSE <<result, NoError>>

\* send_message after process_message: an error returns 500 and leaves the
\* session as it is; otherwise update_session stores the result
StoredAfter(ret, stored) ==
  IF ret[2] # NoError THEN stored ELSE ret[1]

NoCall == [fn |-> "none"]

\* employee_id absent from the request; no row found (None); no request
\* served yet
NoEmployee == 0
NoInterview == [id |-> 0]
NoSummary == [id |-> 0]
NoResponse == [route |-> "none", status |-> 0]

\* initialize_state
initialize_state ==
  [current_stage |-> initial_stage,
   next_stage |-> initial_stage,
   interaction_count |-> 0,
   stage_messages |-> [s \in StageIds |-> <<>>]]

Init ==
  /\ current_stage = initialize_state.current_stage
  /\ next_stage = initialize_state.next_stage
  /\ interaction_count = initialize_state.interaction_count
  /\ stage_messages = initialize_state.stage_messages
  /\ last_user_message = NoMessage
  /\ last_kind = "none"
  /\ pc = "idle"
  /\ steps = 0
  /\ turns = 0
  /\ session = initialize_state
  /\ outcome = NoOutcome
  /\ call = NoCall
  /\ sessions = <<>>
  /\ runs = [sid \in SessionIds |-> IdleRun]
  /\ alone = [sid \in SessionIds |->
                [stored |-> initialize_state, run |-> IdleRun]]
  /\ session_turns = [sid \in SessionIds |-> 0]
  /\ interviews = <<>>
  /\ stage_summaries = <<>>
  /\ session_employee = [sid \in SessionIds |-> NoEmployee]
  /\ response = NoResponse

\* ------------------------------------------------------- the graph's nodes
\* send_message: append the HumanMessage to the session's state and invoke
\* the graph on it
SendMessage(m) ==
  /\ pc = "idle"
  /\ turns < MaxTurns
  /\ current_stage' = session.current_stage
  /\ next_stage' = session.next_stage
  /\ interaction_count' = session.interaction_count
  /\ stage_messages' = session.stage_messages
  /\ last_user_message' = m
  /\ last_kind' = "human"
  /\ pc' = "agent"
  /\ steps' = 0
  /\ turns' = turns + 1
  /\ outcome' = NoOutcome
  /\ UNCHANGED <<session, call, pool_vars, db_vars>>

\* Variant: the stage's list is replaced by the message.
_update_stage_messages_replace(sm, original_stage, m) ==
  IF m # NoMessage
  THEN [sm EXCEPT ![original_stage] = <<m>>]
  ELSE sm

\* _update_stage_messages
_update_stage_messages(sm, original_stage, m) ==
  IF m # NoMessage
  THEN [sm EXCEPT ![original_stage] = Append(@, m)]
  ELSE sm

\* new_interaction_count
new_interaction_count(just_signaled_transition, ic) ==
  IF just_signaled_transition THEN 0 ELSE ic + 1

\* Variant: a response without tool calls ends the invocation.
_should_continue_text_ends(tool_calls, cs, ns) ==
  IF tool_calls # NoToolCall THEN "tools"
  ELSE "end"

\* _should_continue on a state whose last message is an AIMessage
_should_continue(tool_calls, cs, ns) ==
  IF tool_calls # NoToolCall THEN "tools"
  ELSE IF ns # cs THEN "update_stage"
  ELSE "end"

\* Node "agent" (_call_model) with an LLM that answers (tool_calls is what
\* the response carries), followed by the conditional edge; reaching END
\* returns the state to send_message, which stores it with update_session.
AgentOk ==
  /\ pc = "agent"
  /\ steps < MaxSteps
  /\ \E r \in {should_transition_stage(current_stage, stage_messages,
                                       interaction_count, last_user_message)} :
     \E tool_calls \in ToolNames \cup {NoToolCall} :
       LET just_signaled_transition == r[1] /\ r[2] # current_stage
           ns == IF just_signaled_transition THEN r[2] ELSE next_stage
           sm == _update_stage_messages(stage_messages, current_stage,
                                        last_user_message)
           ic == new_interaction_count(just_signaled_transition,
                                       interaction_count)
           route == _should_continue(tool_calls, current_stage, ns)
       IN /\ next_stage' = ns
          /\ stage_messages' = sm
          /\ interaction_count' = ic
          /\ last_kind' = IF tool_calls # NoToolCall THEN "ai_tool"
                          ELSE "ai_text"
          /\ pc' = IF route = "end" THEN "idle" ELSE route
          /\ outcome' = IF route = "end"
                        THEN safe_invoke_graph(FALSE,
                               [current_stage |-> current_stage,
                                next_stage |-> ns,
                                interaction_count |-> ic,
                                stage_messages |-> sm])
                        ELSE outcome
          /\ session' = IF route = "end"
                        THEN StoredAfter(outcome', session)
                        ELSE session
  /\ steps' = steps + 1
  /\ UNCHANGED <<current_stage, last_user_message, turns, call, pool_vars, db_vars>>

\* Node "agent" when the LLM invocation raises: _create_error_state, then
\* the conditional edge reads tool_calls of the last message of the
\* history.  A HumanMessage or ToolMessage has no such attribute, so the
\* invocation fails, the node's update is lost and safe_invoke_graph
\* returns (None, error).
AgentError ==
  /\ pc = "agent"
  /\ steps < MaxSteps
  /\ IF last_kind = "ai_text"
     THEN \E r \in {should_transition_stage(current_stage, stage_messages,
                      interaction_count, last_user_message)} :
            LET just_signaled_transition == r[1] /\ r[2] # current_stage
                ns == IF just_signaled_transition THEN r[2] ELSE next_stage
                ic == IF just_signaled_transition THEN 0
                      ELSE interaction_count
                route == _should_continue(NoToolCall, current_stage, ns)
            IN /\ next_stage' = ns
               /\ interaction_count' = ic
               /\ pc' = IF route = "end" THEN "idle" ELSE route
               /\ outcome' = IF route = "end"
                             THEN safe_invoke_graph(FALSE,
                                    [current_stage |-> current_stage,
                                     next_stage |-> ns,
                                     interaction_count |-> ic,
                                     stage_messages |-> stage_messages])
                             ELSE outcome
               /\ session' = IF route = "end"
                             THEN StoredAfter(outcome', session)
                             ELSE session
     ELSE /\ pc' = "idle"
          /\ outcome' = safe_invoke_graph(TRUE, NoResult)
          /\ session' = StoredAfter(outcome', session)
          /\ UNCHANGED <<next_stage, interaction_count>>
  /\ steps' = steps + 1
  /\ UNCHANGED <<current_stage, stage_messages, last_user_message, last_kind,
                 turns, call, pool_vars, db_vars>>

\* Node "tools" (ToolNode): runs the tool and appends a ToolMessage
Tools ==
  /\ pc = "tools"
  /\ steps < MaxSteps
  /\ last_kind' = "tool"
  /\ pc' = "update_stage"
  /\ steps' = steps + 1
  /\ UNCHANGED <<current_stage, next_stage, interaction_count, stage_messages,
                 last_user_message, turns, session, outcome, call, pool_vars, db_vars>>

\* Node "update_stage"
UpdateStage ==
  /\ pc = "update_stage"
  /\ steps < MaxSteps
  /\ LET r == update_stage_after_tool(
                [current_stage |-> current_stage, next_stage |-> next_stage,
                 interaction_count |-> interaction_count])
     IN /\ current_stage' = r.current_stage
        /\ next_stage' = r.next_stage
        /\ interaction_count' = r.interaction_count
  /\ pc' = "agent"
  /\ steps' = steps + 1
  /\ UNCHANGED <<stage_messages, last_user_message, last_kind, turns, session,
                 outcome, call, pool_vars, db_vars>>

\* The graph stops with an error when it has run MaxSteps nodes without
\* reaching END; the session keeps the state it had.
StepLimit ==
  /\ pc # "idle"
  /\ steps = MaxSteps
  /\ pc' = "idle"
  /\ outcome' = safe_invoke_graph(TRUE, NoResult)
  /\ session' = StoredAfter(outcome', session)
  /\ UNCHANGED <<current_stage, next_stage, interaction_count, stage_messages,
                 last_user_message, last_kind, steps, turns, call, pool_vars, db_vars>>

Next ==
  \/ \E m \in TurnMessages : SendMessage(m)
  \/ AgentOk
  \/ AgentError
  \/ Tools
  \/ UpdateStage
  \/ StepLimit

Spec == Init /\ [][Next]_vars

\* ------------------------------------------- applications of the functions
\* Specification SpecFn applies each function of src/utils.py to inputs
\* drawn from bounded sets and records the inputs and the result in call;
\* each behaviour applies one function once.

\* the utterance lists of a stage
ResponseLists == UNION {[1..k -> Messages] : k \in 0..MaxResponses}

\* stage configurations given to _determine_readiness: the thresholds,
\* minimum interactions and forced-transition ceilings of the default
\* stages, and a ceiling above 2 * min_interactions_for_emergency
ReadinessConfigs ==
  [completion_threshold : {PerMille(0), PerMille(600), PerMille(700),
                           PerMille(750)},
   min_interactions : 0..2,
   force_transition_interactions : {1, 4, 5, 6, 8}]

ScoreValues ==
  {PerMille(p) : p \in {0, 205, 490, 499, 500, 590, 599, 600, 690, 699, 700,
                        749, 750, 1000}}

\* the completion_metrics dictionaries given to determine_next_stage
MetricsValues ==
  [ready_for_next : BOOLEAN,
   completeness_score : {PerMille(499), PerMille(500), PerMille(700)},
   interaction_count : {0, 1, 3, 4, 5, 6}]

StateOf(cs, responses) == [s \in StageIds |-> IF s = cs THEN responses ELSE <<>>]

CallReadiness(score, n, sc) ==
  /\ call' = [fn |-> "_determine_readiness", score |-> score, ic |-> n,
              sc |-> sc, result |-> _determine_readiness(score, n, sc)]
  /\ UNCHANGED graph_vars

CallEvaluate(cs, responses, n) ==
  /\ call' = [fn |-> "evaluate_stage_completion", cs |-> cs,
              responses |-> responses, ic |-> n,
              result |-> evaluate_stage_completion(cs, StateOf(cs, responses), n)]
  /\ UNCHANGED graph_vars

CallShouldTransition(cs, responses, n, m) ==
  /\ call' = [fn |-> "should_transition_stage", cs |-> cs,
              responses |-> responses, ic |-> n, msg |-> m,
              metrics |-> evaluate_stage_completion(cs, StateOf(cs, responses), n),
              result |-> should_transition_stage(cs, StateOf(cs, responses), n, m)]
  /\ UNCHANGED graph_vars

CallDetermine(tool_calls, cs, metrics, m) ==
  /\ call' = [fn |-> "determine_next_stage", tool_calls |-> tool_calls,
              cs |-> cs, metrics |-> metrics, msg |-> m,
              result |-> determine_next_stage(tool_calls, cs, metrics, m)]
  /\ UNCHANGED graph_vars

CallDetectIntent(m, cs) ==
  /\ call' = [fn |-> "detect_conversation_intent", msg |-> m, cs |-> cs,
              result |-> detect_conversation_intent(m, cs)]
  /\ UNCHANGED graph_vars

\* the applier applied once, and applied again to its own result
CallUpdateStage(st) ==
  /\ call' = [fn |-> "update_stage_after_tool", st |-> st,
              once |-> update_stage_after_tool(st),
              twice |-> update_stage_after_tool(update_stage_after_tool(st))]
  /\ UNCHANGED graph_vars

\* the four decision functions, by name
DecisionFunctions ==
  {"evaluate_stage_completion", "detect_conversation_intent",
   "should_transition_stage", "determine_next_stage"}

\* the conversation states the decision functions are called with;
\* stage_completion_metrics is the set of <<stage, metrics>> entries
DecisionStates ==
  [current_stage : StageIds, next_stage : StageIds,
   interaction_count : {0, 1, 5},
   stage_messages : {StateOf(cs, r) : cs \in {"advancements", "challenges"},
                                      r \in {<<>>, <<"m_led">>, <<"m_rich">>}},
   stage_completion_metrics : {{}}]

\* what a call of decision function fn on state st returns
ApplyDecision(fn, st, m, tool_calls) ==
  CASE fn = "evaluate_stage_completion" ->
         evaluate_stage_completion(st.current_stage, st.stage_messages,
                                   st.interaction_count)
    [] fn = "detect_conversation_intent" ->
         [intent |-> detect_conversation_intent(m, st.current_stage)]
    [] fn = "should_transition_stage" ->
         [decision |-> should_transition_stage(st.current_stage,
                         st.stage_messages, st.interaction_count, m)]
    [] OTHER ->
         [stage |-> determine_next_stage(tool_calls, st.current_stage,
                      evaluate_stage_completion(st.current_stage,
                        st.stage_messages, st.interaction_count), m)]

\* Variant: evaluate_stage_completion keeps its metrics in the state.
StateWritten_metrics(fn, st, result) ==
  IF fn = "evaluate_stage_completion"
  THEN [st EXCEPT !.stage_completion_metrics = {<<st.current_stage, result>>}]
  ELSE st

\* The state a call of decision function fn leaves behind: the functions
\* read the state with .get and assign to none of its keys.
StateWritten(fn, st, result) == st

\* a decision function called on a state, and called again on the state
\* the first call left
CallDecision(fn, st, m, tool_calls) ==
  /\ call' = [fn |-> "decision", of |-> fn, before |-> st,
              result |-> ApplyDecision(fn, st, m, tool_calls),
              after |-> StateWritten(fn, st,
                          ApplyDecision(fn, st, m, tool_calls)),
              again |-> ApplyDecision(fn,
                          StateWritten(fn, st,
                            ApplyDecision(fn, st, m, tool_calls)),
                          m, tool_calls)]
  /\ UNCHANGED graph_vars

\* langchain messages_to_dict / messages_from_dict: a BaseMessage object
\* becomes a dictionary of its type and data, and back
messages_to_dict(messages) ==
  [i \in DOMAIN messages |->
     [type |-> messages[i].kind, data |-> [content |-> messages[i].content]]]

messages_from_dict(dicts) ==
  [i \in DOMAIN dicts |->
     [kind |-> dicts[i].type, content |-> dicts[i].data.content]]

\* datetime.isoformat / datetime.fromisoformat
isoformat(d) == [iso |-> d.datetime]

fromisoformat(x) == [datetime |-> x.iso]

\* serialize_agent_state: the state's keys, with the messages replaced and
\* the three keys of the session record added, as JSON text
serialize_agent_state(state, created_at, last_activity, config) ==
  [json |-> [messages |-> messages_to_dict(state.messages),
             created_at |-> isoformat(created_at),
             last_activity |-> isoformat(last_activity),
             config |-> config] @@ state]

\* deserialize_json_to_state: the session record built from the JSON text
deserialize_json_to_state(json_string) ==
  LET data == json_string.json
  IN [state |-> [messages |-> messages_from_dict(data.messages)] @@ data,
      created_at |-> fromisoformat(data.created_at),
      last_activity |-> fromisoformat(data.last_activity),
      config |-> data.config]

\* the session records SessionsService stores
StoredSessions ==
  [state : [messages : {<<>>, <<[kind |-> "human", content |-> "m_led"]>>},
            current_stage : {"advancements", "challenges"},
            captured_data : {<<>>},
            next_stage : {"advancements", "challenges"},
            stage_completion_metrics : {{}},
            interaction_count : {0, 1},
            stage_messages : {StateOf("advancements", r) :
                                r \in {<<>>, <<"m_led">>}}],
   created_at : {[datetime |-> 1]},
   last_activity : {[datetime |-> 1], [datetime |-> 2]},
   config : {[thread_id |-> "hr_session_s1"], [thread_id |-> "hr_session_s2"]}]

\* _save_sessions followed by _load_sessions, for one session record
CallRoundTrip(sd) ==
  /\ call' = [fn |-> "round_trip", saved |-> sd,
              loaded |-> deserialize_json_to_state(
                           serialize_agent_state(sd.state, sd.created_at,
                                                 sd.last_activity, sd.config))]
  /\ UNCHANGED graph_vars

\* the elements generate_follow_up_prompts can name as missing
MoreDetail == [item |-> "more detailed explanation", keywords |-> <<>>]

DiscussionOf(keywords) ==
  [item |-> "discussion of",
   keywords |-> SubSeq(keywords, 1, Min(3, Len(keywords)))]

SpecificExamples == [item |-> "specific examples or metrics", keywords |-> <<>>]

\* the empty string
NoPrompt == [template |-> "none", missing |-> <<>>]

\* Variant: a short answer is not named as missing.
generate_follow_up_prompts_no_detail(stage, metrics) ==
  IF stage \notin Stages THEN NoPrompt
  ELSE LET sc == stages[stage]
           missing ==
             (IF metrics.keyword_coverage < PerMille(500)
                 /\ sc.required_keywords # <<>>
              THEN <<DiscussionOf(sc.required_keywords)>> ELSE <<>>)
             \o (IF ~metrics.has_specific_examples
                 THEN <<SpecificExamples>> ELSE <<>>)
       IN IF missing = <<>> THEN NoPrompt
          ELSE [template |-> "follow_up_template", missing |-> missing]

\* follow_up_template.format(missing=", ".join(missing)), as the template
\* and the list that fills it
generate_follow_up_prompts(stage, metrics) ==
  IF stage \notin Stages THEN NoPrompt
  ELSE LET sc == stages[stage]
           missing ==
             (IF metrics.word_count < sc.min_word_count
              THEN <<MoreDetail>> ELSE <<>>)
             \o (IF metrics.keyword_coverage < PerMille(500)
                    /\ sc.required_keywords # <<>>
                 THEN <<DiscussionOf(sc.required_keywords)>> ELSE <<>>)
             \o (IF ~metrics.has_specific_examples
                 THEN <<SpecificExamples>> ELSE <<>>)
       IN IF missing = <<>> THEN NoPrompt
          ELSE [template |-> "follow_up_template", missing |-> missing]

CallFollowUp(cs, responses, n) ==
  /\ \E mt \in {evaluate_stage_completion(cs, StateOf(cs, responses), n)} :
       call' = [fn |-> "generate_follow_up_prompts", cs |-> cs,
                responses |-> responses, ic |-> n, metrics |-> mt,
                result |-> generate_follow_up_prompts(cs, mt)]
  /\ UNCHANGED graph_vars

\* the stage lists both deciders are called with
DeciderResponses ==
  {<<>>, <<"m_rich", "m_rich">>, <<"m_led", "m_chal">>}
  \cup {<<m>> : m \in Messages}

\* _call_model: both deciders on the same stage, list, count and message,
\* determine_next_stage with the metrics of that state
CallDeciders(tool_calls, cs, responses, n, m) ==
  /\ \E mt \in {evaluate_stage_completion(cs, StateOf(cs, responses), n)} :
       call' = [fn |-> "deciders", tool_calls |-> tool_calls, cs |-> cs,
                responses |-> responses, ic |-> n, msg |-> m, metrics |-> mt,
                signal |-> should_transition_stage(cs, StateOf(cs, responses),
                                                   n, m),
                resolved |-> determine_next_stage(tool_calls, cs, mt, m)]
  /\ UNCHANGED graph_vars

NextFn ==
  /\ call = NoCall
  /\ \/ \E score \in ScoreValues, n \in 0..MaxIC, sc \in ReadinessConfigs :
          CallReadiness(score, n, sc)
     \/ \E cs \in StageIds, r \in ResponseLists, n \in 0..MaxIC :
          CallEvaluate(cs, r, n)
     \/ \E cs \in StageIds, r \in ResponseLists, n \in 0..MaxIC,
           m \in Messages \cup {NoMessage} :
          CallShouldTransition(cs, r, n, m)
     \/ \E t \in ToolCalls, cs \in StageIds, mt \in MetricsValues,
           m \in Messages \cup {NoMessage} :
          CallDetermine(t, cs, mt, m)
     \/ \E m \in Messages \cup {NoMessage}, cs \in StageIds :
          CallDetectIntent(m, cs)
     \/ \E st \in [current_stage : Stages, next_stage : Stages,
                   interaction_count : 0..MaxIC] :
          CallUpdateStage(st)
     \/ \E fn \in DecisionFunctions, st \in DecisionStates,
           m \in {"m_move", "m_chal"}, t \in {NoToolCall, "document_advancement"} :
          CallDecision(fn, st, m, t)
     \/ \E sd \in StoredSessions : CallRoundTrip(sd)
     \/ \E cs \in StageIds, r \in ResponseLists, n \in 0..MaxIC :
          CallFollowUp(cs, r, n)
     \/ \E t \in {NoToolCall, "document_advancement", "document_challenge"},
           cs \in StageIds, r \in DeciderResponses, n \in {0, 1, 2, 4, 5, 6},
           m \in Messages \cup {NoMessage} :
          CallDeciders(t, cs, r, n, m)

SpecFn == Init /\ [][NextFn]_vars

\* ------------------------------------------- the response of send_message
\* SessionsService.get_session_info on the stored state
get_session_info(stored) ==
  [current_stage |-> stored.current_stage,
   next_stage |-> stored.next_stage,
   interaction_count |-> stored.interaction_count]

\* stage_transition = None
NoTransition == [from |-> NoStage, to |-> NoStage]

\* send_message: the stage_transition of the response, computed from the
\* session info read after update_session
stage_transition(session_info) ==
  IF session_info.next_stage # session_info.current_stage
  THEN [from |-> session_info.current_stage, to |-> session_info.next_stage]
  ELSE NoTransition

\* send_message: the stage whose summary is saved through
\* complete_stage_summary, NoStage when none is saved
complete_stage_summary(session_info, interview) ==
  IF /\ interview
     /\ stage_transition(session_info) # NoTransition
     /\ session_info.current_stage # "summary"
  THEN session_info.current_stage
  ELSE NoStage

\* ------------------------------------------------------ several sessions
\* Specification SpecSessions: requests of several sessions are served by
\* one SessionsService and one compiled graph, and their graph nodes
\* interleave.  The message history is not part of an invocation here.
MaxSessionTurns == 1
MaxSessionSteps == 4

\* the messages users send, and what the LLM responses carry
SessionMessages == {"m_move", "m_rich"}
SessionToolCalls == {NoToolCall, "document_advancement"}

\* SessionsService.get_session
get_session(ss, session_id) ==
  IF session_id \in DOMAIN ss THEN ss[session_id] ELSE NoResult

\* SessionsService.create_session
create_session(ss, session_id) == ss @@ (session_id :> initialize_state)

\* Variant: the state is stored under every session id.
update_session_every(ss, session_id, state) ==
  IF session_id \in DOMAIN ss
  THEN [k \in DOMAIN ss |-> state]
  ELSE ss

\* SessionsService.update_session
update_session(ss, session_id, state) ==
  IF session_id \in DOMAIN ss
  THEN [ss EXCEPT ![session_id] = state]
  ELSE ss

\* the AgentState fields of an invocation
StateOfRun(g) ==
  [current_stage |-> g.current_stage, next_stage |-> g.next_stage,
   interaction_count |-> g.interaction_count,
   stage_messages |-> g.stage_messages]

\* send_message: the invocation started on a stored state with message m
StartRun(stored, m) ==
  [current_stage |-> stored.current_stage, next_stage |-> stored.next_stage,
   interaction_count |-> stored.interaction_count,
   stage_messages |-> stored.stage_messages,
   last_user_message |-> m, last_kind |-> "human", pc |-> "agent",
   steps |-> 0, error |-> FALSE]

\* node "agent" with an LLM that answers: the returned state and the
\* conditional edge, for the signal and the next_stage the node computed
AgentNodeUpdate(g, tool_calls, just_signaled_transition, ns, route) ==
  [g EXCEPT
     !.next_stage = ns,
     !.stage_messages = _update_stage_messages(@, g.current_stage,
                                               g.last_user_message),
     !.interaction_count = new_interaction_count(just_signaled_transition, @),
     !.last_kind = IF tool_calls # NoToolCall THEN "ai_tool" ELSE "ai_text",
     !.pc = IF route = "end" THEN "idle" ELSE route,
     !.steps = @ + 1]

AgentNodeRoute(g, tool_calls, just_signaled_transition, ns) ==
  AgentNodeUpdate(g, tool_calls, just_signaled_transition, ns,
                  _should_continue(tool_calls, g.current_stage, ns))

AgentNodeSignal(g, tool_calls, r) ==
  AgentNodeRoute(g, tool_calls, r[1] /\ r[2] # g.current_stage,
                 IF r[1] /\ r[2] # g.current_stage THEN r[2]
                 ELSE g.next_stage)

AgentNode(g, tool_calls) ==
  AgentNodeSignal(g, tool_calls,
                  should_transition_stage(g.current_stage, g.stage_messages,
                                          g.interaction_count,
                                          g.last_user_message))

\* node "agent" with an LLM invocation that raises: _create_error_state
\* keeps the history, so the conditional edge reads the last message of
\* the previous run
AgentNodeErrorUpdate(g, just_signaled_transition, route) ==
  [g EXCEPT
     !.interaction_count = IF just_signaled_transition THEN 0 ELSE @,
     !.pc = IF route = "end" THEN "idle" ELSE route,
     !.steps = @ + 1]

AgentNodeErrorSignal(g, r) ==
  AgentNodeErrorUpdate(
    [g EXCEPT !.next_stage = IF r[1] /\ r[2] # g.current_stage THEN r[2]
                             ELSE @],
    r[1] /\ r[2] # g.current_stage,
    _should_continue(NoToolCall, g.current_stage,
                     IF r[1] /\ r[2] # g.current_stage THEN r[2]
                     ELSE g.next_stage))

AgentNodeError(g) ==
  IF g.last_kind = "ai_text"
  THEN AgentNodeErrorSignal(g,
         should_transition_stage(g.current_stage, g.stage_messages,
                                 g.interaction_count, g.last_user_message))
  ELSE [g EXCEPT !.pc = "idle", !.error = TRUE, !.steps = @ + 1]

\* node "tools"
ToolsNode(g) ==
  [g EXCEPT !.last_kind = "tool", !.pc = "update_stage", !.steps = @ + 1]

\* node "update_stage"
UpdateStageNode(g) ==
  LET r == update_stage_after_tool(StateOfRun(g))
  IN [g EXCEPT !.current_stage = r.current_stage,
               !.next_stage = r.next_stage,
               !.interaction_count = r.interaction_count,
               !.pc = "agent", !.steps = @ + 1]

\* the invocation stopped because it ran MaxSessionSteps nodes
AbortedRun(g) == [g EXCEPT !.pc = "idle", !.error = TRUE]

\* send_message after process_message returned for invocation g
StoreRun(ss, session_id, g) ==
  IF g.pc = "idle"
  THEN LET ret == safe_invoke_graph(g.error, StateOfRun(g))
       IN IF ret[2] # NoError THEN ss
          ELSE update_session(ss, session_id, ret[1])
  ELSE ss

\* the same step taken by the session when it is served alone
AloneAfter(a, g) ==
  [stored |-> IF g.pc = "idle" /\ ~g.error THEN StateOfRun(g) ELSE a.stored,
   run |-> g]

SessionCreate(sid) ==
  /\ sid \notin DOMAIN sessions
  /\ sessions' = create_session(sessions, sid)
  /\ UNCHANGED <<runs, alone, session_turns>>
  /\ UNCHANGED <<current_stage, next_stage, interaction_count, stage_messages,
                 last_user_message, last_kind, pc, steps, turns, session,
                 outcome, call, db_vars>>

SessionSend(sid, m) ==
  /\ sid \in DOMAIN sessions
  /\ runs[sid].pc = "idle"
  /\ session_turns[sid] < MaxSessionTurns
  /\ runs' = [runs EXCEPT ![sid] = StartRun(get_session(sessions, sid), m)]
  /\ alone' = [alone EXCEPT ![sid].run = StartRun(alone[sid].stored, m)]
  /\ session_turns' = [session_turns EXCEPT ![sid] = @ + 1]
  /\ UNCHANGED sessions
  /\ UNCHANGED <<current_stage, next_stage, interaction_count, stage_messages,
                 last_user_message, last_kind, pc, steps, turns, session,
                 outcome, call, db_vars>>

SessionAgentOk(sid, tool_calls) ==
  /\ sid \in DOMAIN sessions
  /\ runs[sid].pc = "agent"
  /\ runs[sid].steps < MaxSessionSteps
  /\ runs' = [runs EXCEPT ![sid] = AgentNode(@, tool_calls)]
  /\ sessions' = StoreRun(sessions, sid, AgentNode(runs[sid], tool_calls))
  /\ alone' = [alone EXCEPT
                 ![sid] = AloneAfter(@, AgentNode(alone[sid].run, tool_calls))]
  /\ UNCHANGED session_turns
  /\ UNCHANGED <<current_stage, next_stage, interaction_count, stage_messages,
                 last_user_message, last_kind, pc, steps, turns, session,
                 outcome, call, db_vars>>

SessionAgentError(sid) ==
  /\ sid \in DOMAIN sessions
  /\ runs[sid].pc = "agent"
  /\ runs[sid].steps < MaxSessionSteps
  /\ runs' = [runs EXCEPT ![sid] = AgentNodeError(@)]
  /\ sessions' = StoreRun(sessions, sid, AgentNodeError(runs[sid]))
  /\ alone' = [alone EXCEPT
                 ![sid] = AloneAfter(@, AgentNodeError(alone[sid].run))]
  /\ UNCHANGED session_turns
  /\ UNCHANGED <<current_stage, next_stage, interaction_count, stage_messages,
                 last_user_message, last_kind, pc, steps, turns, session,
                 outcome, call, db_vars>>

SessionTools(sid) ==
  /\ sid \in DOMAIN sessions
  /\ runs[sid].pc = "tools"
  /\ runs[sid].steps < MaxSessionSteps
  /\ runs' = [runs EXCEPT ![sid] = ToolsNode(@)]
  /\ sessions' = StoreRun(sessions, sid, ToolsNode(runs[sid]))
  /\ alone' = [alone EXCEPT
                 ![sid] = AloneAfter(@, ToolsNode(alone[sid].run))]
  /\ UNCHANGED session_turns
  /\ UNCHANGED <<current_stage, next_stage, interaction_count, stage_messages,
                 last_user_message, last_kind, pc, steps, turns, session,
                 outcome, call, db_vars>>

SessionUpdateStage(sid) ==
  /\ sid \in DOMAIN sessions
  /\ runs[sid].pc = "update_stage"
  /\ runs[sid].steps < MaxSessionSteps
  /\ runs' = [runs EXCEPT ![sid] = UpdateStageNode(@)]
  /\ sessions' = StoreRun(sessions, sid, UpdateStageNode(runs[sid]))
  /\ alone' = [alone EXCEPT
                 ![sid] = AloneAfter(@, UpdateStageNode(alone[sid].run))]
  /\ UNCHANGED session_turns
  /\ UNCHANGED <<current_stage, next_stage, interaction_count, stage_messages,
                 last_user_message, last_kind, pc, steps, turns, session,
                 outcome, call, db_vars>>

SessionStepLimit(sid) ==
  /\ sid \in DOMAIN sessions
  /\ runs[sid].pc # "idle"
  /\ runs[sid].steps = MaxSessionSteps
  /\ runs' = [runs EXCEPT ![sid] = AbortedRun(@)]
  /\ sessions' = StoreRun(sessions, sid, AbortedRun(runs[sid]))
  /\ alone' = [alone EXCEPT
                 ![sid] = AloneAfter(@, AbortedRun(alone[sid].run))]
  /\ UNCHANGED session_turns
  /\ UNCHANGED <<current_stage, next_stage, interaction_count, stage_messages,
                 last_user_message, last_kind, pc, steps, turns, session,
                 outcome, call, db_vars>>

NextSessions ==
  \/ \E sid \in SessionIds : SessionCreate(sid)
  \/ \E sid \in SessionIds, m \in SessionMessages : SessionSend(sid, m)
  \/ \E sid \in SessionIds, t \in SessionToolCalls : SessionAgentOk(sid, t)
  \/ \E sid \in SessionIds : SessionAgentError(sid)
  \/ \E sid \in SessionIds : SessionTools(sid)
  \/ \E sid \in SessionIds : SessionUpdateStage(sid)
  \/ \E sid \in SessionIds : SessionStepLimit(sid)

SpecSessions == Init /\ [][NextSessions]_vars

\* ------------------------------------------------- the interview database
\* Specification SpecInterview: the routes of sessions_routes.py and
\* interview_routes.py over SessionsService.sessions and the tables
\* interviews and stage_summaries.  A commit may fail with a SQLAlchemyError,
\* which the repository rolls back and reports as None; queries are
\* answered.  The graph's part of send_message is its result: an error, or
\* a state with no transition pending whose stage is the stored one or the
\* one after it.  The Interview model has no current_stage attribute, so
\* update_interview skips that keyword.
Employees == {1}
EmployeeIds == {NoEmployee, 1, 2}
SummaryStages == {"advancements", "summary"}
SummaryTexts == {"text_a", "text_b"}

\* EmployeeService.get_employee
get_employee(employee_id) ==
  IF employee_id \in Employees THEN employee_id ELSE NoEmployee

\* Variant: the session stays in the dictionary.
delete_session_keep(ss, session_id) == ss

\* SessionsService.delete_session
delete_session(ss, session_id) ==
  [k \in (DOMAIN ss) \ {session_id} |-> ss[k]]

\* InterviewRepository.get_interview_by_session
get_interview_by_session(rows, session_id) ==
  IF \E i \in DOMAIN rows : rows[i].session_id = session_id
  THEN rows[CHOOSE i \in DOMAIN rows :
              /\ rows[i].session_id = session_id
              /\ \A j \in DOMAIN rows :
                   rows[j].session_id = session_id => i <= j]
  ELSE NoInterview

\* InterviewService.create_interview over InterviewRepository's: the table
\* after the call; session_id is unique
create_interview(rows, employee_id, session_id, committed) ==
  IF committed /\ get_interview_by_session(rows, session_id) = NoInterview
  THEN Append(rows, [id |-> Len(rows) + 1, employee_id |-> employee_id,
                     session_id |-> session_id, status |-> "in_progress",
                     completed_at |-> FALSE])
  ELSE rows

\* what create_interview returns: the new row, or None
CreatedInterview(rows, after) ==
  IF Len(after) > Len(rows) THEN after[Len(after)] ELSE NoInterview

\* InterviewService.update_interview with status = ...
update_interview(rows, interview_id, status, committed) ==
  IF committed /\ interview_id \in DOMAIN rows
  THEN [rows EXCEPT ![interview_id].status = status]
  ELSE rows

\* InterviewService.complete_interview: the table after the call
complete_interview(rows, session_id, committed) ==
  IF committed /\ get_interview_by_session(rows, session_id) # NoInterview
  THEN [rows EXCEPT
          ![get_interview_by_session(rows, session_id).id].status =
             "completed",
          ![get_interview_by_session(rows, session_id).id].completed_at =
             TRUE]
  ELSE rows

\* InterviewRepository.get_stage_summary_by_interview_and_name
get_stage_summary_by_interview_and_name(rows, interview_id, stage_name) ==
  IF \E i \in DOMAIN rows : /\ rows[i].interview_id = interview_id
                            /\ rows[i].stage_name = stage_name
  THEN rows[CHOOSE i \in DOMAIN rows :
              /\ rows[i].interview_id = interview_id
              /\ rows[i].stage_name = stage_name
              /\ \A j \in DOMAIN rows :
                   (/\ rows[j].interview_id = interview_id
                    /\ rows[j].stage_name = stage_name) => i <= j]
  ELSE NoSummary

\* InterviewRepository.get_stage_summaries_by_interview
get_stage_summaries_by_interview(rows, interview_id) ==
  SelectSeq(rows, LAMBDA r : r.interview_id = interview_id)

\* InterviewRepository.create_stage_summary
create_stage_summary(rows, interview_id, stage_name, order, summary_text, committed) ==
  IF committed
  THEN Append(rows, [id |-> Len(rows) + 1, interview_id |-> interview_id,
                     stage_name |-> stage_name, stage_order |-> order,
                     summary_text |-> summary_text])
  ELSE rows

\* InterviewRepository.update_stage_summary
update_stage_summary(rows, stage_summary_id, summary_text, committed) ==
  IF committed /\ stage_summary_id \in DOMAIN rows
  THEN [rows EXCEPT ![stage_summary_id].summary_text = summary_text]
  ELSE rows

\* Variant: a row is created whether or not the stage has one.
InterviewService_complete_stage_summary_create(rows, interview_id, stage_name, summary_text, committed) ==
  create_stage_summary(
    rows, interview_id, stage_name,
    Len(get_stage_summaries_by_interview(rows, interview_id)) + 1,
    summary_text, committed)

\* InterviewService.complete_stage_summary: the table after the call
InterviewService_complete_stage_summary(rows, interview_id, stage_name, summary_text, committed) ==
  IF get_stage_summary_by_interview_and_name(rows, interview_id, stage_name)
       # NoSummary
  THEN update_stage_summary(
         rows,
         get_stage_summary_by_interview_and_name(
           rows, interview_id, stage_name).id,
         summary_text, committed)
  ELSE create_stage_summary(
         rows, interview_id, stage_name,
         Len(get_stage_summaries_by_interview(rows, interview_id)) + 1,
         summary_text, committed)

\* HRAssistantService.process_message: what the graph returns for the
\* stored state
GraphStages(stored) ==
  {stored.current_stage} \cup
    (IF stored.current_stage \in Stages /\ stored.current_stage # "summary"
     THEN {stage_order[IndexOf(stored.current_stage) + 1]}
     ELSE {})

process_message(stored, raised, stage) ==
  safe_invoke_graph(
    raised, [stored EXCEPT !.current_stage = stage, !.next_stage = stage])

\* an id uuid4 has not handed out
FreshSessionId(sid) ==
  /\ sid \notin DOMAIN sessions
  /\ get_interview_by_session(interviews, sid) = NoInterview

Responded(route, status) ==
  response' = [route |-> route, status |-> status]

\* create_session with an employee_id: the session is in created
LinkEmployee(sid, created, employee_id, after) ==
  IF get_employee(employee_id) = NoEmployee
  THEN /\ sessions' = delete_session(created, sid)
       /\ Responded("create_session", 404)
       /\ UNCHANGED <<interviews, session_employee>>
  ELSE IF CreatedInterview(interviews, after) = NoInterview
  THEN /\ sessions' = delete_session(created, sid)
       /\ Responded("create_session", 500)
       /\ UNCHANGED <<interviews, session_employee>>
  ELSE /\ sessions' = created
       /\ interviews' = after
       /\ session_employee' = [session_employee EXCEPT ![sid] = employee_id]
       /\ Responded("create_session", 201)

\* POST /sessions
Route_create_session(sid, employee_id, committed) ==
  /\ FreshSessionId(sid)
  /\ IF employee_id = NoEmployee
     THEN /\ sessions' = create_session(sessions, sid)
          /\ Responded("create_session", 201)
          /\ UNCHANGED <<interviews, session_employee>>
     ELSE LinkEmployee(sid, create_session(sessions, sid), employee_id,
                       create_interview(interviews, employee_id, sid,
                                        committed))
  /\ UNCHANGED <<stage_summaries, runs, alone, session_turns>>
  /\ UNCHANGED <<current_stage, next_stage, interaction_count, stage_messages,
                 last_user_message, last_kind, pc, steps, turns, session,
                 outcome, call>>

\* start_employee_interview once the employee is found: the session is in
\* created
StartInterview(sid, created, employee_id, after) ==
  IF CreatedInterview(interviews, after) = NoInterview
  THEN /\ sessions' = delete_session(created, sid)
       /\ Responded("start_employee_interview", 500)
       /\ UNCHANGED <<interviews, session_employee>>
  ELSE /\ sessions' = created
       /\ interviews' = after
       /\ session_employee' = [session_employee EXCEPT ![sid] = employee_id]
       /\ Responded("start_employee_interview", 201)

\* POST /employees/<employee_id>/interviews/start
Route_start_employee_interview(sid, employee_id, committed) ==
  /\ FreshSessionId(sid)
  /\ employee_id # NoEmployee
  /\ IF get_employee(employee_id) = NoEmployee
     THEN /\ Responded("start_employee_interview", 404)
          /\ UNCHANGED <<sessions, interviews, session_employee>>
     ELSE StartInterview(sid, create_session(sessions, sid), employee_id,
                         create_interview(interviews, employee_id, sid,
                                          committed))
  /\ UNCHANGED <<stage_summaries, runs, alone, session_turns>>
  /\ UNCHANGED <<current_stage, next_stage, interaction_count, stage_messages,
                 last_user_message, last_kind, pc, steps, turns, session,
                 outcome, call>>

\* send_message after update_session: the auto-save of a linked session
AutoSave(interview, session_info, committed, summary_committed) ==
  IF interview = NoInterview
  THEN UNCHANGED <<interviews, stage_summaries>>
  ELSE /\ interviews' = update_interview(interviews, interview.id,
                                         "in_progress", committed)
       /\ stage_summaries' =
            IF complete_stage_summary(session_info, TRUE) # NoStage
            THEN InterviewService_complete_stage_summary(
                   stage_summaries, interview.id,
                   complete_stage_summary(session_info, TRUE), "text_a",
                   summary_committed)
            ELSE stage_summaries

\* send_message once process_message returned ret
Processed(sid, ret, committed, summary_committed) ==
  IF ret[2] # NoError
  THEN /\ Responded("send_message", 500)
       /\ UNCHANGED <<sessions, interviews, stage_summaries>>
  ELSE /\ sessions' = update_session(sessions, sid, ret[1])
       /\ AutoSave(get_interview_by_session(interviews, sid),
                   get_session_info(ret[1]), committed, summary_committed)
       /\ Responded("send_message", 200)

\* POST /sessions/<session_id>/messages
Route_send_message(sid, raised, stage, committed, summary_committed) ==
  /\ IF sid \notin DOMAIN sessions
     THEN /\ Responded("send_message", 404)
          /\ UNCHANGED <<sessions, interviews, stage_summaries>>
     ELSE /\ stage \in GraphStages(sessions[sid])
          /\ Processed(sid, process_message(sessions[sid], raised, stage),
                       committed, summary_committed)
  /\ UNCHANGED <<session_employee, runs, alone, session_turns>>
  /\ UNCHANGED <<current_stage, next_stage, interaction_count, stage_messages,
                 last_user_message, last_kind, pc, steps, turns, session,
                 outcome, call>>

\* get_summary for a linked session whose messages hold a summary
SaveSummary(sid, interview, summary_content, committed, summary_committed) ==
  /\ interviews' = complete_interview(interviews, sid, committed)
  /\ stage_summaries' =
       InterviewService_complete_stage_summary(
         stage_summaries, interview.id, "summary", summary_content,
         summary_committed)

\* GET /sessions/<session_id>/summary; summary_content is "" when no
\* message mentions a summary
Route_get_summary(sid, summary_content, committed, summary_committed) ==
  /\ IF sid \notin DOMAIN sessions
     THEN /\ Responded("get_summary", 404)
          /\ UNCHANGED <<interviews, stage_summaries>>
     ELSE IF get_session_info(sessions[sid]).current_stage # "summary"
     THEN /\ Responded("get_summary", 400)
          /\ UNCHANGED <<interviews, stage_summaries>>
     ELSE /\ Responded("get_summary", 200)
          /\ IF /\ get_interview_by_session(interviews, sid) # NoInterview
                /\ summary_content # ""
             THEN SaveSummary(sid, get_interview_by_session(interviews, sid),
                              summary_content, committed, summary_committed)
             ELSE UNCHANGED <<interviews, stage_summaries>>
  /\ UNCHANGED <<sessions, session_employee, runs, alone, session_turns>>
  /\ UNCHANGED <<current_stage, next_stage, interaction_count, stage_messages,
                 last_user_message, last_kind, pc, steps, turns, session,
                 outcome, call>>

\* POST /interviews/session/<session_id>/complete
Route_complete_interview(sid, close_session, committed) ==
  /\ interviews' = complete_interview(interviews, sid, committed)
  /\ IF ~(committed /\ get_interview_by_session(interviews, sid)
                         # NoInterview)
     THEN /\ Responded("complete_interview", 404)
          /\ UNCHANGED <<sessions, session_employee>>
     ELSE /\ Responded("complete_interview", 200)
          /\ IF close_session
             THEN /\ sessions' = delete_session(sessions, sid)
                  /\ session_employee' =
                       [session_employee EXCEPT ![sid] = NoEmployee]
             ELSE UNCHANGED <<sessions, session_employee>>
  /\ UNCHANGED <<stage_summaries, runs, alone, session_turns>>
  /\ UNCHANGED <<current_stage, next_stage, interaction_count, stage_messages,
                 last_user_message, last_kind, pc, steps, turns, session,
                 outcome, call>>

\* POST /interviews/session/<session_id>/stages
Route_create_stage_summary(sid, stage_name, summary_text, committed) ==
  /\ IF get_interview_by_session(interviews, sid) = NoInterview
     THEN /\ Responded("create_stage_summary", 404)
          /\ UNCHANGED stage_summaries
     ELSE /\ stage_summaries' =
               InterviewService_complete_stage_summary(
                 stage_summaries,
                 get_interview_by_session(interviews, sid).id, stage_name,
                 summary_text, committed)
          /\ Responded("create_stage_summary",
                       IF committed THEN 200 ELSE 500)
  /\ UNCHANGED <<sessions, interviews, session_employee, runs, alone,
                 session_turns>>
  /\ UNCHANGED <<current_stage, next_stage, interaction_count, stage_messages,
                 last_user_message, last_kind, pc, steps, turns, session,
                 outcome, call>>

\* POST /interviews/session/<session_id>/auto-save
Route_auto_save_interview_progress(sid, committed) ==
  /\ IF \/ get_interview_by_session(interviews, sid) = NoInterview
        \/ sid \notin DOMAIN sessions
     THEN /\ Responded("auto_save_interview_progress", 404)
          /\ UNCHANGED interviews
     ELSE /\ interviews' =
               update_interview(
                 interviews, get_interview_by_session(interviews, sid).id,
                 "in_progress", committed)
          /\ Responded("auto_save_interview_progress", 200)
  /\ UNCHANGED <<sessions, stage_summaries, session_employee, runs, alone,
                 session_turns>>
  /\ UNCHANGED <<current_stage, next_stage, interaction_count, stage_messages,
                 last_user_message, last_kind, pc, steps, turns, session,
                 outcome, call>>

\* DELETE /sessions/<session_id>
Route_delete_session(sid, preserve_interview) ==
  /\ IF /\ get_interview_by_session(interviews, sid) # NoInterview
        /\ ~preserve_interview
     THEN /\ Responded("delete_session", 400)
          /\ UNCHANGED <<sessions, session_employee>>
     ELSE IF sid \in DOMAIN sessions
     THEN /\ sessions' = delete_session(sessions, sid)
          /\ session_employee' =
               [session_employee EXCEPT ![sid] = NoEmployee]
          /\ Responded("delete_session", 200)
     ELSE /\ Responded("delete_session", 404)
          /\ UNCHANGED <<sessions, session_employee>>
  /\ UNCHANGED <<interviews, stage_summaries, runs, alone, session_turns>>
  /\ UNCHANGED <<current_stage, next_stage, interaction_count, stage_messages,
                 last_user_message, last_kind, pc, steps, turns, session,
                 outcome, call>>

NextInterview ==
  \/ \E sid \in SessionIds, e \in EmployeeIds, c \in BOOLEAN :
       Route_create_session(sid, e, c)
  \/ \E sid \in SessionIds, e \in EmployeeIds, c \in BOOLEAN :
       Route_start_employee_interview(sid, e, c)
  \/ \E sid \in SessionIds, raised \in BOOLEAN, stage \in Stages, c \in BOOLEAN, d \in BOOLEAN :
       Route_send_message(sid, raised, stage, c, d)
  \/ \E sid \in SessionIds, t \in {"", "text_a"}, c \in BOOLEAN, d \in BOOLEAN :
       Route_get_summary(sid, t, c, d)
  \/ \E sid \in SessionIds, close \in BOOLEAN, c \in BOOLEAN :
       Route_complete_interview(sid, close, c)
  \/ \E sid \in SessionIds, c \in BOOLEAN :
       Route_auto_save_interview_progress(sid, c)
  \/ \E sid \in SessionIds, p \in BOOLEAN : Route_delete_session(sid, p)

SpecInterview == Init /\ [][NextInterview]_vars

\* Specification SpecSummaries: linked sessions and the route that saves
\* stage summaries for any stage name
NextSummaries ==
  \/ \E sid \in SessionIds, e \in Employees, c \in BOOLEAN :
       Route_create_session(sid, e, c)
  \/ \E sid \in SessionIds, n \in SummaryStages, t \in SummaryTexts, c \in BOOLEAN :
       Route_create_stage_summary(sid, n, t, c)

SpecSummaries == Init /\ [][NextSummaries]_vars

\* ------------------------------------------------------------ properties
LastStage == stage_order[Len(stage_order)]

\* the stage after cs in stage order, written out from the position
After(cs) == stage_order[IndexOf(cs) + 1]

\* C1: in every step of a graph node current_stage either keeps its value
\* or becomes the stage immediately following it in stage_order, it is
\* always a configured stage, and the stage stored for the session never
\* moves backward -- whatever stage the intent detector points to.
C1_StageAdvancesToSuccessorOnly ==
  [][ /\ current_stage' \in Stages
      /\ pc # "idle" =>
           \/ current_stage' = current_stage
           \/ /\ current_stage # LastStage
              /\ current_stage' = After(current_stage)
      /\ IndexOf(session'.current_stage) >= IndexOf(session.current_stage)
    ]_vars

\* C1 witness: the stage has advanced twice and the user's message points
\* the intent detector at a stage that is neither the current nor the next.
C1_Witness ==
  /\ pc = "agent"
  /\ current_stage = "achievements"
  /\ last_user_message # NoMessage
  /\ detect_conversation_intent(last_user_message, current_stage)
       \notin {current_stage, After(current_stage), continue_intent}

\* C2: in the last stage of stage_order should_transition_stage returns
\* (False, current_stage) and determine_next_stage returns current_stage,
\* for every message, metrics value and tool call.
C2_TerminalStageIsKept ==
  /\ (call.fn = "should_transition_stage" /\ call.cs = LastStage)
       => call.result = <<FALSE, LastStage>>
  /\ (call.fn = "determine_next_stage" /\ call.cs = LastStage)
       => call.result = LastStage

\* C2 witness: the terminal stage is ready and a documentation tool is
\* called, and the resolution stays in the terminal stage.
C2_Witness ==
  /\ call.fn = "determine_next_stage"
  /\ call.cs = LastStage
  /\ call.metrics.ready_for_next
  /\ call.tool_calls = "document_action_plan"
  /\ call.result = LastStage

\* C2 in the workflow: once current_stage is the last stage, no node
\* changes it.
C2_TerminalStageIsKeptByGraph ==
  [][(pc # "idle" /\ current_stage = LastStage)
       => current_stage' = LastStage]_vars

\* C3: ready_for_next is decided by the first tier that applies: primary
\* (score >= threshold and count >= min_interactions) gives true; else
\* forced (count >= force_transition_interactions) gives score >= 0.5;
\* else extended (count >= 2 * min_interactions_for_emergency) gives
\* score >= 0.6; else false.
C3_ReadinessTiers ==
  call.fn = "_determine_readiness" =>
    LET primary == /\ call.score >= call.sc.completion_threshold
                   /\ call.ic >= call.sc.min_interactions
        forced == call.ic >= call.sc.force_transition_interactions
        extended == call.ic >= 2 * 3
    IN call.result <=>
         \/ primary
         \/ ~primary /\ forced /\ call.score >= PerMille(500)
         \/ ~primary /\ ~forced /\ extended /\ call.score >= PerMille(600)

\* C3 witness: the extended tier decides, and says ready.
C3_Witness ==
  /\ call.fn = "_determine_readiness"
  /\ call.score < call.sc.completion_threshold
  /\ call.ic < call.sc.force_transition_interactions
  /\ call.ic >= 6
  /\ call.result

\* C4: for a non-terminal stage should_transition_stage returns
\* (True, next) exactly when the metrics are ready, or a message is present
\* whose intent is the next stage with score >= 0.5 and count >= 1; else
\* (False, current).  The boolean is true iff the target differs.
C4_ShouldTransition ==
  (call.fn = "should_transition_stage" /\ call.cs \in Stages
     /\ call.cs # LastStage) =>
    LET advance ==
          \/ call.metrics.ready_for_next
          \/ /\ call.msg # NoMessage
             /\ detect_conversation_intent(call.msg, call.cs) = After(call.cs)
             /\ call.metrics.completeness_score >= PerMille(500)
             /\ call.metrics.interaction_count >= 1
    IN /\ call.result =
            IF advance THEN <<TRUE, After(call.cs)>> ELSE <<FALSE, call.cs>>
       /\ call.result[1] <=> (call.result[2] # call.cs)

\* C4 witness: a continuation phrase in a stage that is not ready.
C4_Witness ==
  /\ call.fn = "should_transition_stage"
  /\ call.cs = "advancements"
  /\ call.msg = "m_move"
  /\ call.metrics.completeness_score >= PerMille(500)
  /\ ~call.metrics.ready_for_next
  /\ call.result = <<FALSE, "advancements">>

\* C4 witness of the intent rule: not ready, and advanced by intent.
C4_WitnessIntent ==
  /\ call.fn = "should_transition_stage"
  /\ ~call.metrics.ready_for_next
  /\ call.result[1]

\* the documentation tools and the stage each one leads to
DocumentedStage(t) ==
  CASE t = "document_advancement" -> "challenges"
    [] t = "document_challenge" -> "achievements"
    [] t = "document_achievement" -> "training_needs"
    [] t = "document_training_need" -> "action_plan"
    [] t = "document_action_plan" -> "summary"
    [] OTHER -> NoStage

\* C5: determine_next_stage returns current_stage or its successor.  It
\* returns the successor exactly when a documentation tool mapped to the
\* successor is called while ready, or the message's intent is the
\* successor with score >= 0.5, or count >= force_transition_interactions
\* with score >= 0.5; otherwise current_stage.
C5_DetermineNextStage ==
  call.fn = "determine_next_stage" =>
    LET cs == call.cs
        nxt == IF cs \in Stages /\ cs # LastStage THEN After(cs) ELSE cs
        tool_rule == /\ call.metrics.ready_for_next
                     /\ DocumentedStage(call.tool_calls) = nxt
        intent_rule == /\ call.msg # NoMessage
                       /\ detect_conversation_intent(call.msg, cs) = nxt
                       /\ call.metrics.completeness_score >= PerMille(500)
        forced_rule == /\ call.metrics.interaction_count
                            >= StageCfg(cs).force_transition_interactions
                       /\ call.metrics.completeness_score >= PerMille(500)
    IN /\ call.result \in {cs, nxt}
       /\ cs \in Stages =>
            call.result =
              IF tool_rule \/ intent_rule \/ forced_rule THEN nxt ELSE cs

\* C5 witness: ready, and a documentation tool of another stage is called;
\* no other rule applies and the stage is kept.
C5_Witness ==
  /\ call.fn = "determine_next_stage"
  /\ call.cs = "advancements"
  /\ call.metrics.ready_for_next
  /\ call.tool_calls = "document_challenge"
  /\ call.result = "advancements"

\* C6: the applier commits current_stage := next_stage and
\* interaction_count := 0 when next_stage differs from current_stage, and
\* otherwise changes nothing; applying it again changes nothing.
C6_ApplierIdempotent ==
  call.fn = "update_stage_after_tool" =>
    /\ call.st.next_stage # call.st.current_stage =>
         call.once = [current_stage |-> call.st.next_stage,
                      next_stage |-> call.st.next_stage,
                      interaction_count |-> 0]
    /\ call.st.next_stage = call.st.current_stage => call.once = call.st
    /\ call.twice = call.once

\* C6 witness: a pending transition with a positive count is committed.
C6_Witness ==
  /\ call.fn = "update_stage_after_tool"
  /\ call.st.next_stage # call.st.current_stage
  /\ call.st.interaction_count > 0
  /\ call.twice.interaction_count = 0

\* C7: in a step of a graph node interaction_count is reset to 0 only
\* when current_stage changes in that step.
C7_ResetOnlyWithStageChange ==
  [][(pc # "idle" /\ interaction_count > 0 /\ interaction_count' = 0)
       => current_stage' # current_stage]_vars

\* C8: for a fixed stage configuration and score, a larger interaction
\* count never turns ready_for_next from true to false.
C8_MonotonicReadiness ==
  (call.fn = "_determine_readiness" /\ call.result) =>
    \A m \in call.ic..MaxIC : _determine_readiness(call.score, m, call.sc)

\* C8 witness: ready by the extended tier below a forced-transition
\* ceiling that larger counts reach.
C8_Witness ==
  /\ call.fn = "_determine_readiness"
  /\ call.result
  /\ call.score < call.sc.completion_threshold
  /\ call.ic >= 6
  /\ call.ic < call.sc.force_transition_interactions
  /\ call.sc.force_transition_interactions <= MaxIC

\* C9: when the primary condition fails and the count has reached
\* force_transition_interactions, ready_for_next is true iff
\* score >= emergency_completeness_score (0.5), the bound included.
C9_ForcedTierBoundary ==
  (/\ call.fn = "_determine_readiness"
   /\ ~(/\ call.score >= call.sc.completion_threshold
        /\ call.ic >= call.sc.min_interactions)
   /\ call.ic >= call.sc.force_transition_interactions)
    => (call.result <=> call.score >= PerMille(500))

\* C9 witness: ceiling 4, count 4, score exactly 0.5 below the threshold.
C9_Witness ==
  /\ call.fn = "_determine_readiness"
  /\ call.sc.force_transition_interactions = 4
  /\ call.ic = 4
  /\ call.score = PerMille(500)
  /\ call.sc.completion_threshold > PerMille(500)
  /\ call.result

\* C9 at score 0.49: not ready.
C9_WitnessBelow ==
  /\ call.fn = "_determine_readiness"
  /\ call.sc.force_transition_interactions = 4
  /\ call.ic = 4
  /\ call.score = PerMille(490)
  /\ ~call.result

\* C10: the completeness score is the weighted sum with weights
\* 0.25/0.25/0.20/0.15/0.15; coverage and depth are found/total, 1.0 for
\* an empty list, and depth is at most 1.0.
C10_CompositeScore ==
  call.fn = "evaluate_stage_completion" =>
    LET mt == call.result
        sc == StageCfg(call.cs)
        Found(kws) ==
          Cardinality({i \in 1..Len(kws) :
            \E j \in 1..Len(call.responses) :
              \/ Msg[call.responses[j]].every
              \/ kws[i] \in Msg[call.responses[j]].has})
        PartOf(met, otherwise) ==
          IF met THEN ScoreUnit ELSE (otherwise * ScoreUnit) \div 10
    IN /\ mt.completeness_score * 1000 =
            mt.keyword_coverage * 250
          + mt.depth_score * 250
          + PartOf(call.ic >= sc.min_interactions, 5) * 200
          + PartOf(mt.word_count >= sc.min_word_count, 3) * 150
          + PartOf(mt.has_specific_examples, 4) * 150
       /\ IF sc.required_keywords = <<>>
          THEN mt.keyword_coverage = ScoreUnit
          ELSE mt.keyword_coverage * Len(sc.required_keywords)
                 = Found(sc.required_keywords) * ScoreUnit
       /\ IF sc.depth_indicators = <<>>
          THEN mt.depth_score = ScoreUnit
          ELSE mt.depth_score * Len(sc.depth_indicators)
                 = Found(sc.depth_indicators) * ScoreUnit
       /\ mt.depth_score <= ScoreUnit

\* C10 witness: a stage without keywords, evaluated on a non-empty text.
C10_Witness ==
  /\ call.fn = "evaluate_stage_completion"
  /\ StageCfg(call.cs).required_keywords = <<>>
  /\ call.responses # <<>>
  /\ call.result.keyword_coverage = ScoreUnit

\* C11: in a stage with min_word_count 100, completion_threshold 0.7 and
\* min_interactions 2, evaluated at 2 interactions on a text with full
\* keyword and depth coverage and an example phrase: 100 words give
\* min_words_met and ready_for_next; 99 words give no min_words_met and a
\* score strictly below that of every such text of 100 words.
C11_WordBoundInclusive ==
  (/\ call.fn = "evaluate_stage_completion"
   /\ StageCfg(call.cs).min_word_count = 100
   /\ StageCfg(call.cs).completion_threshold = PerMille(700)
   /\ StageCfg(call.cs).min_interactions = 2
   /\ call.ic = 2
   /\ call.result.keyword_coverage = ScoreUnit
   /\ call.result.depth_score = ScoreUnit
   /\ call.result.has_specific_examples) =>
    /\ call.result.word_count = 100 =>
         /\ call.result.min_words_met
         /\ call.result.ready_for_next
    /\ call.result.word_count = 99 =>
         /\ ~call.result.min_words_met
         /\ \A r \in ResponseLists :
              LET other == evaluate_stage_completion(
                             call.cs, StateOf(call.cs, r), call.ic)
              IN (/\ other.word_count = 100
                  /\ other.keyword_coverage = ScoreUnit
                  /\ other.depth_score = ScoreUnit
                  /\ other.has_specific_examples)
                   => call.result.completeness_score
                        < other.completeness_score

\* C11 witness: exactly 100 words, met and ready.
C11_Witness ==
  /\ call.fn = "evaluate_stage_completion"
  /\ call.cs = "advancements"
  /\ call.ic = 2
  /\ call.responses = <<"m_w100">>
  /\ call.result.min_words_met
  /\ call.result.ready_for_next

\* C11 at 99 words: the word bound is not met and the score is 0.895.
C11_Witness99 ==
  /\ call.fn = "evaluate_stage_completion"
  /\ call.cs = "advancements"
  /\ call.ic = 2
  /\ call.responses = <<"m_w99">>
  /\ ~call.result.min_words_met
  /\ call.result.completeness_score = PerMille(895)

\* C12: for every current stage, a message that contains a continuation
\* phrase makes detect_conversation_intent return "continue", whatever
\* stage keywords the message also contains.
C12_ContinuationFirst ==
  (/\ call.fn = "detect_conversation_intent"
   /\ call.msg # NoMessage
   /\ Msg[call.msg].cont) => call.result = "continue"

\* C12 witness: a continuation phrase in a message whose keywords alone
\* would point at "challenges" (5 of 14).
C12_Witness ==
  /\ call.fn = "detect_conversation_intent"
  /\ call.cs = "advancements"
  /\ call.msg = "m_chal_move"
  /\ Cardinality(Msg[call.msg].has) * 10 >= 3 * 14
  /\ call.result = "continue"

\* the keywords of a stage that message m contains, and how many the
\* stage configures (required keywords and depth indicators together)
KeywordShare(m, stage) ==
  LET kws == stages[stage].required_keywords \o stages[stage].depth_indicators
  IN <<Cardinality({i \in 1..Len(kws) :
                      Msg[m].every \/ kws[i] \in Msg[m].has}), Len(kws)>>

\* the required keywords of a stage that message m contains
RequiredFound(m, stage) ==
  LET kws == stages[stage].required_keywords
  IN Cardinality({i \in 1..Len(kws) : Msg[m].every \/ kws[i] \in Msg[m].has})

C13_WitnessThree ==
  /\ call.fn = "detect_conversation_intent"
  /\ call.cs = "advancements"
  /\ call.msg = "m_chal3"
  /\ KeywordShare(call.msg, "challenges") = <<3, 14>>
  /\ call.result = "advancements"

C14_UnknownStageReady ==
  (call.fn = "evaluate_stage_completion" /\ call.cs \notin Stages) =>
    /\ call.result.min_interactions_met
    /\ call.result.min_words_met
    /\ call.result.ready_for_next

\* C14, the part that holds: for a stage that is not configured the
\* scorer returns metrics with full keyword and depth coverage, and both
\* deciders return the current stage.
C14_UnknownStageDecided ==
  /\ (call.fn = "evaluate_stage_completion" /\ call.cs \notin Stages) =>
       /\ call.result.keyword_coverage = ScoreUnit
       /\ call.result.depth_score = ScoreUnit
  /\ (call.fn = "should_transition_stage" /\ call.cs \notin Stages) =>
       call.result = <<FALSE, call.cs>>
  /\ (call.fn = "determine_next_stage" /\ call.cs \notin Stages) =>
       call.result = call.cs

\* C14: an unconfigured stage with no text at count 0 scores 0.705 and is
\* not ready.
C14_WitnessNotReady ==
  /\ call.fn = "evaluate_stage_completion"
  /\ call.cs = UnknownStage
  /\ call.responses = <<>>
  /\ call.ic = 0
  /\ call.result.completeness_score = PerMille(705)
  /\ ~call.result.ready_for_next

\* C15: a response without tool calls, or whose tool call entry carries
\* no name, is resolved by determine_next_stage exactly as a response
\* that carries no tool call.
C15_MalformedToolCall ==
  (/\ call.fn = "determine_next_stage"
   /\ call.tool_calls \in {NoToolCall, NamelessToolCall}) =>
    call.result =
      determine_next_stage(NoToolCall, call.cs, call.metrics, call.msg)

\* C15 witness: a nameless entry on a ready stage, no message, below the
\* forced-transition ceiling: the stage is kept.
C15_Witness ==
  /\ call.fn = "determine_next_stage"
  /\ call.tool_calls = NamelessToolCall
  /\ call.cs = "advancements"
  /\ call.metrics.ready_for_next
  /\ call.msg = NoMessage
  /\ call.metrics.interaction_count < 5
  /\ call.result = "advancements"

\* C16: when the LLM invocation of the agent node fails, the state stored
\* for the session stays the one stored before the turn.
C16_FailureKeepsStoredState ==
  [][AgentError => session' = session]_vars

\* C16, the failing case: the stage was advanced earlier in the turn, the
\* agent node runs again and its LLM invocation fails after a text
\* response; the invocation ends normally and the advanced state is stored.
C16_WitnessStored ==
  /\ pc = "idle"
  /\ last_kind = "ai_text"
  /\ outcome[2] = NoError
  /\ session.current_stage # initial_stage
  /\ Len(session.stage_messages[session.current_stage]) = 0

\* C17: an invocation of the graph returns either a result and no error,
\* or no result and an error message; on an error the state stored for
\* the session is not updated, and otherwise it is the result.
C17_SafeInvoke ==
  /\ [](pc = "idle" /\ turns > 0 =>
          /\ (outcome[1] = NoResult) # (outcome[2] = NoError)
          /\ outcome[2] = NoError => session = outcome[1])
  /\ [][(pc # "idle" /\ pc' = "idle" /\ outcome'[2] # NoError)
          => session' = session]_vars

\* C17 witness: the graph raised in the second turn, after a first turn
\* whose result was stored.
C17_Witness ==
  /\ pc = "idle"
  /\ turns = 2
  /\ outcome = <<NoResult, ErrorText>>
  /\ session # initialize_state

\* the completeness score the agent node computes in the current state
ScoreSeen ==
  evaluate_stage_completion(current_stage, stage_messages,
                            interaction_count).completeness_score

\* the count has reached the forced-transition ceiling of a stage that is
\* not the last one
AtCeiling ==
  /\ current_stage # LastStage
  /\ interaction_count
       >= StageCfg(current_stage).force_transition_interactions

C18_WitnessKept ==
  /\ pc = "agent"
  /\ steps < MaxSteps
  /\ AtCeiling
  /\ ScoreSeen < PerMille(500)

\* C19: the user's message is appended to the current stage's list before
\* the stage is scored: what a run of the agent node decides is what
\* should_transition_stage gives on the list that includes the message.
C19_ScoreSeesTurnMessage ==
  [][AgentOk =>
       LET r == should_transition_stage(current_stage, stage_messages',
                                        interaction_count, last_user_message)
       IN next_stage' = IF r[1] /\ r[2] # current_stage THEN r[2]
                        ELSE next_stage
    ]_vars

\* C20: after a run of the agent node whose LLM response carries no tool
\* call, the next_stage written to the state is the stage that
\* determine_next_stage returns for the response, the metrics and the
\* message of that run.
C20_NextStageIsResolved ==
  [][(AgentOk /\ last_kind' = "ai_text") =>
       next_stage' =
         determine_next_stage(
           NoToolCall, current_stage,
           evaluate_stage_completion(current_stage, stage_messages,
                                     interaction_count),
           last_user_message)
    ]_vars

\* C21: under every interleaving of the requests of different sessions,
\* the state stored for each session and the invocation in flight for it
\* are the ones the session has when it is served alone.
C21_SessionsIndependent ==
  \A sid \in DOMAIN sessions :
    /\ sessions[sid] = alone[sid].stored
    /\ runs[sid] = alone[sid].run

\* C21 witness: the invocations of both sessions are in flight at
\* different nodes, on different messages.
C21_Witness ==
  /\ runs["s1"].pc = "update_stage"
  /\ runs["s2"].pc = "tools"
  /\ runs["s1"].last_user_message # runs["s2"].last_user_message

\* C21: both sessions have finished a turn and their stored states differ.
C21_WitnessStored ==
  /\ DOMAIN sessions = SessionIds
  /\ \A sid \in SessionIds : session_turns[sid] = 1 /\ runs[sid].pc = "idle"
  /\ sessions["s1"] # sessions["s2"]
  /\ sessions["s1"] # initialize_state
  /\ sessions["s2"] # initialize_state

C23_RoundTripLossless ==
  call.fn = "round_trip" =>
    /\ \A k \in {"current_stage", "next_stage", "interaction_count",
                 "stage_messages", "stage_completion_metrics"} :
         call.loaded.state[k] = call.saved.state[k]
    /\ DOMAIN call.loaded.state = DOMAIN call.saved.state
    /\ call.loaded.created_at = call.saved.created_at
    /\ call.loaded.last_activity = call.saved.last_activity
    /\ call.loaded.config = call.saved.config

\* C24: in stage "advancements" with the single stored utterance "I led a
\* project that improved conversion by 15%, mentoring two juniors." and
\* interaction_count 1, the metrics have has_specific_examples true,
\* min_words_met false, a score below 0.7 and ready_for_next false, and the
\* follow-up prompt names "more detailed explanation".
C24_ShortAnswerScenario ==
  (/\ call.fn = "generate_follow_up_prompts"
   /\ call.cs = "advancements"
   /\ call.responses = <<"m_led">>
   /\ call.ic = 1)
  => /\ call.metrics.has_specific_examples
     /\ ~call.metrics.min_words_met
     /\ call.metrics.completeness_score < PerMille(700)
     /\ ~call.metrics.ready_for_next
     /\ call.result.template = "follow_up_template"
     /\ \E i \in DOMAIN call.result.missing :
          call.result.missing[i] = MoreDetail

\* C24 witness: the scenario's call was made; its score is 0.3575.
C24_Witness ==
  /\ call.fn = "generate_follow_up_prompts"
  /\ call.cs = "advancements"
  /\ call.responses = <<"m_led">>
  /\ call.ic = 1
  /\ call.metrics.word_count = 12
  /\ call.metrics.completeness_score * 10 = PerMille(3575)

\* list a is an initial part of list b
IsPrefix(a, b) == Len(a) <= Len(b) /\ SubSeq(b, 1, Len(a)) = a

\* from stage lists a to stage lists b, the list of stage cs only grew at
\* its end and every other list is the same
OnlyAppended(a, b, cs) ==
  /\ IsPrefix(a[cs], b[cs])
  /\ \A s \in StageIds \ {cs} : b[s] = a[s]

\* C25: while current_stage keeps its value the current stage's list only
\* grows at its end and the other stages' lists are untouched, both from
\* the state stored before a turn to the state stored after it and from
\* one graph node to the next within an invocation.
C25_StageListAppendOnly ==
  [][/\ session'.current_stage = session.current_stage
          => OnlyAppended(session.stage_messages, session'.stage_messages,
                          session.current_stage)
     /\ (pc # "idle" /\ current_stage' = current_stage)
          => OnlyAppended(stage_messages, stage_messages', current_stage)
    ]_vars

\* C25 witness: two turns were stored in the initial stage and its list
\* holds both messages, in the order they were sent.
C25_Witness ==
  /\ turns = 2
  /\ pc = "idle"
  /\ outcome[2] = NoError
  /\ session.current_stage = initial_stage
  /\ session.stage_messages[initial_stage] = <<"m_led", "m_move">>

\* C26: when an invocation ends with a result, the stored stage lists are
\* those from before the turn with the turn's message appended once, to the
\* list of the stage that was current when the message was sent.
C26_RecordedOnce ==
  [][(pc # "idle" /\ pc' = "idle" /\ outcome'[2] = NoError)
       => session'.stage_messages =
            [session.stage_messages EXCEPT
               ![session.current_stage] = Append(@, last_user_message)]
    ]_vars

\* C27: when an invocation ends with a result and the stored stage is the
\* one from before the turn, the stored interaction_count is one more than
\* before the turn; when the stored stage is a newly entered one, the
\* stored interaction_count is 1.
C27_CountsUserTurns ==
  [][(pc # "idle" /\ pc' = "idle" /\ outcome'[2] = NoError)
       => session'.interaction_count =
            IF session'.current_stage = session.current_stage
            THEN session.interaction_count + 1
            ELSE 1
    ]_vars

\* C28: the state an invocation returns when it reaches END, and the state
\* stored for the session, have next_stage equal to current_stage.
C28_NoPendingTransitionAtEnd ==
  /\ (outcome # NoOutcome /\ outcome[2] = NoError)
       => outcome[1].next_stage = outcome[1].current_stage
  /\ session.next_stage = session.current_stage

\* C28 witness: a turn in which a transition was signalled has ended with
\* a result, and the transition is committed in the stored state.
C28_Witness ==
  /\ pc = "idle"
  /\ turns = 1
  /\ outcome # NoOutcome
  /\ outcome[2] = NoError
  /\ outcome[1].current_stage = "challenges"
  /\ session.current_stage = "challenges"

\* C29: when an invocation ends with a result and the stored stage is not
\* the one from before the turn, the response's stage_transition names the
\* stage before the turn and the stored stage, and for a session linked to
\* an interview the summary of the stage before the turn is saved.
C29_TransitionReported ==
  [][(/\ pc # "idle" /\ pc' = "idle" /\ outcome'[2] = NoError
      /\ session'.current_stage # session.current_stage)
       => /\ stage_transition(get_session_info(session')) =
               [from |-> session.current_stage,
                to |-> session'.current_stage]
          /\ complete_stage_summary(get_session_info(session'), TRUE) =
               session.current_stage
    ]_vars

\* C30: when an invocation ends with a result, the stored stage is the
\* stage from before the turn or the one immediately after it in
\* stage_order, whatever the LLM responses of the turn were.
C30_OneStagePerMessage ==
  [][(pc # "idle" /\ pc' = "idle" /\ outcome'[2] = NoError)
       => IndexOf(session'.current_stage)
            <= IndexOf(session.current_stage) + 1
    ]_vars

TopStages(m, cs) ==
  {s \in Stages \ {cs} :
     /\ IntentTotal(s) > 0
     /\ \A t \in Stages \ {cs} :
          IntentTotal(t) > 0 =>
            IntentMatches(m, s) * IntentTotal(t)
              >= IntentMatches(m, t) * IntentTotal(s)}

\* the highest fraction is at least 0.3
TopReaches(m, cs) ==
  \E s \in TopStages(m, cs) : IntentMatches(m, s) * 10 >= 3 * IntentTotal(s)

\* the stage of a set that comes first in stage_order
FirstInOrder(S) == CHOOSE s \in S : \A t \in S : IndexOf(s) <= IndexOf(t)

\* C32: without a message the detector returns current_stage; for a message
\* without continuation phrase it returns the first stage in stage_order
\* among the other stages with the highest matched fraction when that
\* fraction is at least 0.3, a stage that is never current_stage, and it
\* returns current_stage only when that fraction is below 0.3.
C32_TieBreakFirstInOrder ==
  call.fn = "detect_conversation_intent" =>
    /\ call.msg = NoMessage => call.result = call.cs
    /\ (call.msg # NoMessage /\ ~Msg[call.msg].cont) =>
         IF TopReaches(call.msg, call.cs)
         THEN /\ call.result = FirstInOrder(TopStages(call.msg, call.cs))
              /\ call.result # call.cs
         ELSE call.result = call.cs

\* C32 witness: in "challenges" a message for which all other stages tie
\* at the highest fraction was given, and "advancements" was returned.
C32_Witness ==
  /\ call.fn = "detect_conversation_intent"
  /\ call.cs = "challenges"
  /\ call.msg # NoMessage
  /\ Cardinality(TopStages(call.msg, call.cs)) > 1
  /\ TopReaches(call.msg, call.cs)
  /\ call.result = "advancements"

\* C32 witness: the detector was called without a message.
C32_WitnessNoMessage ==
  /\ call.fn = "detect_conversation_intent"
  /\ call.msg = NoMessage
  /\ call.result = call.cs

\* C33: the completeness score lies between 0.205 and 1.0, and it is 1.0
\* exactly when keyword coverage and depth score are 1.0, both minimums
\* are met and a specific example is present.
C33_ScoreRange ==
  call.fn = "evaluate_stage_completion" =>
    /\ call.result.completeness_score >= PerMille(205)
    /\ call.result.completeness_score <= ScoreUnit
    /\ call.result.completeness_score = ScoreUnit
         <=> /\ call.result.keyword_coverage = ScoreUnit
             /\ call.result.depth_score = ScoreUnit
             /\ call.result.min_interactions_met
             /\ call.result.min_words_met
             /\ call.result.has_specific_examples

\* C33 witness: a stage without responses and interactions scores 0.205.
C33_WitnessLowest ==
  /\ call.fn = "evaluate_stage_completion"
  /\ call.cs = "advancements"
  /\ call.responses = <<>>
  /\ call.ic = 0
  /\ call.result.completeness_score = PerMille(205)

\* C33 witness: a stage with all five components full scores 1.0.
C33_WitnessFull ==
  /\ call.fn = "evaluate_stage_completion"
  /\ call.cs = "achievements"
  /\ call.result.min_words_met
  /\ call.result.completeness_score = ScoreUnit

\* the metrics of a stored state
MetricsOf(st) ==
  evaluate_stage_completion(st.current_stage, st.stage_messages,
                            st.interaction_count)

\* every component of metrics a is at most that of metrics b
MetricsGrow(a, b) ==
  /\ a.interaction_count <= b.interaction_count
  /\ a.word_count <= b.word_count
  /\ a.keyword_coverage <= b.keyword_coverage
  /\ a.depth_score <= b.depth_score
  /\ a.has_specific_examples => b.has_specific_examples
  /\ a.min_interactions_met => b.min_interactions_met
  /\ a.min_words_met => b.min_words_met
  /\ a.completeness_score <= b.completeness_score
  /\ a.ready_for_next => b.ready_for_next

\* C34: while the stored stage keeps its value, no component of the
\* metrics of the stored state decreases from one turn to the next, the
\* score does not decrease, and a stage that is ready stays ready.
C34_ScoreMonotoneWithinStage ==
  [][session'.current_stage = session.current_stage
       => MetricsGrow(MetricsOf(session), MetricsOf(session'))
    ]_vars

\* C34 witness: a second turn was stored in the initial stage and raised
\* its score above the one the first turn left.
C34_Witness ==
  /\ turns = 2
  /\ pc = "idle"
  /\ session.current_stage = initial_stage
  /\ session.stage_messages[initial_stage] = <<"m_move", "m_led">>
  /\ MetricsOf(session).completeness_score
       > evaluate_stage_completion(initial_stage,
           StateOf(initial_stage, <<"m_move">>), 1).completeness_score

\* the stage configuration has the threshold, minimum and ceiling of a
\* stage of the default configuration
IsDefaultStageConfig(sc) ==
  \E s \in Stages :
    /\ sc.completion_threshold = stages[s].completion_threshold
    /\ sc.min_interactions = stages[s].min_interactions
    /\ sc.force_transition_interactions
         = stages[s].force_transition_interactions

\* C35: for the stages of the default configuration the verdict of
\* _determine_readiness is the one the primary and the forced tier give,
\* and the extended tier's test is never reached with an interaction count
\* of 2 * min_interactions_for_emergency or more.
C35_ExtendedTierNeverDecides ==
  (call.fn = "_determine_readiness" /\ IsDefaultStageConfig(call.sc)) =>
    /\ call.result <=>
         \/ /\ call.score >= call.sc.completion_threshold
            /\ call.ic >= call.sc.min_interactions
         \/ /\ call.ic >= call.sc.force_transition_interactions
            /\ call.score >= emergency_completeness_score
    /\ ~ /\ call.ic < call.sc.force_transition_interactions
         /\ call.ic >= min_interactions_for_emergency * 2

\* C35 witness: with the configuration of "achievements" (ceiling 6), six
\* interactions and a score of 0.69, below the threshold 0.75, the verdict
\* is positive.
C35_Witness ==
  /\ call.fn = "_determine_readiness"
  /\ call.sc.completion_threshold = PerMille(750)
  /\ call.sc.min_interactions = 2
  /\ call.sc.force_transition_interactions = 6
  /\ call.ic = 6
  /\ call.score = PerMille(690)
  /\ call.result

\* C36: on the same stage, list, message and an interaction count of at
\* least 1, whenever determine_next_stage returns a stage other than the
\* current one, that stage is the next in stage_order and
\* should_transition_stage returns (True, that stage).
C36_ResolutionImpliesSignal ==
  (/\ call.fn = "deciders"
   /\ call.ic >= 1
   /\ call.resolved # call.cs)
  => /\ call.resolved = NextInOrder(call.cs)
     /\ call.signal = <<TRUE, call.resolved>>

\* C36 witness: determine_next_stage advanced by its forced rule, with a
\* score below the stage's threshold and without tool call or message.
C36_WitnessForced ==
  /\ call.fn = "deciders"
  /\ call.tool_calls = NoToolCall
  /\ call.msg = NoMessage
  /\ call.ic >= StageCfg(call.cs).force_transition_interactions
  /\ call.metrics.completeness_score < StageCfg(call.cs).completion_threshold
  /\ call.resolved = NextInOrder(call.cs)
  /\ call.resolved # call.cs

\* C36 witness: determine_next_stage advanced by its intent rule on a
\* stage that is not ready.
C36_WitnessIntent ==
  /\ call.fn = "deciders"
  /\ call.tool_calls = NoToolCall
  /\ call.ic >= 1
  /\ ~call.metrics.ready_for_next
  /\ call.resolved # call.cs

\* C36 witness: determine_next_stage advanced by a tool call.
C36_WitnessTool ==
  /\ call.fn = "deciders"
  /\ call.tool_calls = "document_advancement"
  /\ call.msg = NoMessage
  /\ call.ic = 2
  /\ call.resolved = "challenges"

C37_WitnessNoEmployee ==
  /\ response = [route |-> "create_session", status |-> 404]
  /\ DOMAIN sessions = {"s1"}
  /\ session_employee["s1"] = 1

C37_WitnessStart ==
  /\ response = [route |-> "start_employee_interview", status |-> 500]
  /\ DOMAIN sessions = {"s2"}
  /\ Len(interviews) = 1

\* two rows of table stage_summaries for one interview and stage name
NoDuplicateSummaries(rows) ==
  \A i \in DOMAIN rows : \A j \in DOMAIN rows :
    (/\ rows[i].interview_id = rows[j].interview_id
     /\ rows[i].stage_name = rows[j].stage_name) => i = j

\* the table after a call is the table before it, or differs from it in
\* the text of one row, or has one row more, for a stage the interview had
\* no row for, numbered one past the rows the interview had
Upserted(rows, after) ==
  \/ after = rows
  \/ /\ Len(after) = Len(rows)
     /\ \E i \in DOMAIN rows :
          after = [rows EXCEPT ![i].summary_text = after[i].summary_text]
  \/ /\ Len(after) = Len(rows) + 1
     /\ SubSeq(after, 1, Len(rows)) = rows
     /\ \A i \in DOMAIN rows :
          ~(/\ rows[i].interview_id = after[Len(after)].interview_id
            /\ rows[i].stage_name = after[Len(after)].stage_name)
     /\ after[Len(after)].stage_order =
          Cardinality({i \in DOMAIN rows :
                        rows[i].interview_id =
                          after[Len(after)].interview_id}) + 1

C39_StatusOnlyForward ==
  [][\A i \in DOMAIN interviews :
       interviews[i].status = "completed"
         => interviews'[i].status = "completed"]_vars

====
